---- MODULE Spec2Model ----
(***************************************************************************)
(* Bond Sequence Optimiser: the top-k engine getOptimalSequences with its  *)
(* path reconstruction, and the single-best scalar DP optimiseCRF.         *)
(*                                                                         *)
(* Doubles are modelled by integers with saturation: a product whose       *)
(* magnitude exceeds MaxFinite becomes PosInf or NegInf, as an IEEE-754    *)
(* product that exceeds the largest finite double becomes +inf or -inf.    *)
(* Holding period returns are integers, so a return factor 1 + HPR is an   *)
(* integer and every finite product is exact.                              *)
(***************************************************************************)
EXTENDS Integers, Sequences, FiniteSets, TLC

\* ------------------------------------------------------------------ bounds
MaxMonths == 3
MaxK == 3
MaxFinite == 16

\* The tenor lists a Return Matrix is built from (strictly ascending).
TenorLists == { <<1>>, <<2>>, <<3>>, <<1, 2>>, <<1, 3>>, <<2, 3>> }
\* The holding period returns of a grid cell: the return factors -2, 2 and 3.
HPRs == { -3, 1, 2 }

\* ------------------------------------------------------- double arithmetic
PosInf == MaxFinite + 1
NegInf == -(MaxFinite + 1)
NaN == MaxFinite + 2

\* Faulty variant: only an overflow above the finite range is detected.
isinfAbove(x) == x = PosInf

isinf(x) == x = PosInf \/ x = NegInf
signbit(x) == x < 0

\* IEEE-754 product: exact while finite, saturating to the signed infinity,
\* inf * 0 = NaN, NaN propagates.
Mul(a, b) ==
    IF a = NaN \/ b = NaN THEN NaN
    ELSE IF isinf(a) \/ isinf(b)
         THEN IF a = 0 \/ b = 0 THEN NaN
              ELSE IF (a < 0) = (b < 0) THEN PosInf ELSE NegInf
    ELSE IF a * b > MaxFinite THEN PosInf
    ELSE IF a * b < -MaxFinite THEN NegInf
    ELSE a * b

\* operator> on doubles: false when either side is NaN.
Gt(a, b) == a # NaN /\ b # NaN /\ a > b

\* ----------------------------------------------- long long and double counts
\* A count is a natural number held as its digits in base 2^LimbWidth, least
\* significant first, without leading zero digits: a long long while it is at
\* most LLMax, a double when it has at most DoubleDigits significant bits.
LimbWidth == 15
DoubleDigits == 53
Base == 2 ^ LimbWidth

\* std::numeric_limits<long long>::max() = 2^63 - 1
LLMax == << Base - 1, Base - 1, Base - 1, Base - 1, 7 >>

Zero == << >>
One == << 1 >>

RECURSIVE AddLimbs(_, _, _)
AddLimbs(a, b, carry) ==
    IF a = << >> /\ b = << >>
    THEN IF carry = 0 THEN << >> ELSE << carry >>
    ELSE LET x == IF a = << >> THEN 0 ELSE Head(a)
             y == IF b = << >> THEN 0 ELSE Head(b)
             sum == x + y + carry
         IN << sum % Base >> \o
            AddLimbs(IF a = << >> THEN << >> ELSE Tail(a),
                     IF b = << >> THEN << >> ELSE Tail(b),
                     sum \div Base)

BigAdd(a, b) == AddLimbs(a, b, 0)

RECURSIVE Normalise(_)
Normalise(a) ==
    IF a = << >> \/ a[Len(a)] # 0 THEN a ELSE Normalise(SubSeq(a, 1, Len(a) - 1))

RECURSIVE SubLimbs(_, _, _)
SubLimbs(a, b, borrow) ==
    IF a = << >> THEN << >>
    ELSE LET y == IF b = << >> THEN 0 ELSE Head(b)
             diff == Head(a) - y - borrow
         IN << diff % Base >> \o
            SubLimbs(Tail(a), IF b = << >> THEN << >> ELSE Tail(b),
                     IF diff < 0 THEN 1 ELSE 0)

\* a - b for a >= b
BigSub(a, b) == Normalise(SubLimbs(a, b, 0))

BigLess(a, b) ==
    \/ Len(a) < Len(b)
    \/ /\ Len(a) = Len(b)
       /\ \E i \in 1 .. Len(a) :
            /\ a[i] < b[i]
            /\ \A j \in (i + 1) .. Len(a) : a[j] = b[j]

\* The number of significant bits of a count.
BitLength(a) ==
    IF a = << >> THEN 0
    ELSE LimbWidth * (Len(a) - 1) +
         (CHOOSE n \in 1 .. LimbWidth : 2 ^ (n - 1) <= a[Len(a)] /\ a[Len(a)] < 2 ^ n)

\* Bit k of a count, and whether any bit below k is set.
BitOf(a, k) == (a[(k \div LimbWidth) + 1] \div (2 ^ (k % LimbWidth))) % 2
AnyBitBelow(a, k) ==
    \/ \E i \in 1 .. (k \div LimbWidth) : a[i] # 0
    \/ a[(k \div LimbWidth) + 1] % (2 ^ (k % LimbWidth)) # 0

\* The count with its bits below k cleared, and 2^k.
ClearBelow(a, k) ==
    [i \in 1 .. Len(a) |->
        IF i - 1 < k \div LimbWidth THEN 0
        ELSE IF i - 1 = k \div LimbWidth
        THEN a[i] - (a[i] % (2 ^ (k % LimbWidth)))
        ELSE a[i]]
PowerOfTwo(k) ==
    [i \in 1 .. ((k \div LimbWidth) + 1) |->
        IF i - 1 = k \div LimbWidth THEN 2 ^ (k % LimbWidth) ELSE 0]

\* Rounding of a count to the nearest double, ties to even: the
\* DoubleDigits most significant bits are kept.
RoundToDouble(a) ==
    LET drop == BitLength(a) - DoubleDigits
    IN IF drop <= 0 THEN a
       ELSE LET kept == ClearBelow(a, drop)
                up == \/ BitOf(a, drop - 1) = 1 /\ AnyBitBelow(a, drop - 1)
                      \/ BitOf(a, drop - 1) = 1 /\ BitOf(a, drop) = 1
            IN IF up THEN BigAdd(kept, PowerOfTwo(drop)) ELSE kept

\* static_cast<double>(long long) and the sum of two doubles.
ToDouble(a) == RoundToDouble(a)
DoubleAdd(a, b) == RoundToDouble(BigAdd(a, b))


VARIABLES
    tenorList,            \* tenorData.tenors(), indexed from 0
    numMonths,            \* tenorData.numMonths()
    grid,                 \* tenorData(i, m): the HPR of tenor row i bought at month m
    numResultsRequested,  \* k of the running call
    pc,                   \* position of the running call
    CRFs,                 \* the rolling window CRFs[row, rank]
    decisions,            \* decisions[month, rank] = (tenor, prevRank)
    rowIndex,             \* month -> row of the window
    windowCounter,
    currentMonth,
    candidatePQ,          \* the heap of candidates of the current month
    numResults,
    numResultsFound,
    results,              \* the value the call returned, or the error it threw
    scalar,               \* the value optimiseCRF returned for the same matrix
    prior,                \* k and the CRFs (or error) of the earlier call
    construction,         \* a call of the BondReturnData constructor
    counter,              \* a call of countPaths
    loader,               \* a call of loadBondReturnCSV
    exporter,             \* a call of generateOutputFilename
    prompt,               \* a call of getNumResultsPrompt
    dataPrompt,           \* a call of getDataPrompt
    recursive,            \* a call of topBotCRFs
    rendering             \* an Action sequence written as a row of results

\* The calls of the other components, each idle unless its own specification
\* runs it.
components == << construction, counter, loader, exporter, prompt,
                dataPrompt, recursive, rendering >>

vars == << tenorList, numMonths, grid, numResultsRequested, pc, CRFs, decisions,
           rowIndex, windowCounter, currentMonth, candidatePQ, numResults,
           numResultsFound, results, scalar, prior, components >>

None == [kind |-> "none"]

numTenors == Len(tenorList)
tenorAt(i) == tenorList[i + 1]
tenorData(i, m) == grid[<<i, m>>]

Min(a, b) == IF a < b THEN a ELSE b

\* The largest tenor: tenorList.back(), the tenors being sorted at construction.
maxTenor == tenorList[Len(tenorList)]
\* Faulty variant: the window is sized by the shortest tenor.
windowOfShortestTenor == Min(tenorList[1], numMonths) + 1

\* Rows of the rolling CRF window.
window == Min(maxTenor, numMonths) + 1

Ranks == 0 .. (numResultsRequested - 1)

\* ------------------------------------------------------- InvestmentAction
\* The constructor throws std::invalid_argument unless month >= 0 and length > 0.
ActionValid(choiceMonth, periodLength) == choiceMonth >= 0 /\ periodLength > 0
InvestmentAction(a, choiceMonth, periodLength) ==
    [action |-> a, startMonth |-> choiceMonth, length |-> periodLength]

\* Faulty variant: the path is left in the order the backward walk built it.
NotReversed(s) == s

\* std::ranges::reverse
Reverse(s) == [i \in 1 .. Len(s) |-> s[Len(s) + 1 - i]]

\* ------------------------------------------------------------ input space
\* The cells of the grid the optimisers can read: a bond of tenor t bought at
\* month m matures at m + t <= numMonths.  The other cells are never read and
\* are held at 0.
Cells(tl, M) == (0 .. (Len(tl) - 1)) \X (0 .. (M - 1))
ReadCells(tl, M) == { c \in Cells(tl, M) : c[2] + tl[c[1] + 1] <= M }
Grids(tl, M) ==
    { [c \in Cells(tl, M) |-> IF c \in ReadCells(tl, M) THEN u[c] ELSE 0] :
        u \in [ReadCells(tl, M) -> HPRs] }

\* What the loader hands to the engine: strictly ascending tenors, at least as
\* many months as the shortest tenor, every 1 + HPR finite.
Init ==
    /\ tenorList \in TenorLists
    /\ numMonths \in 1 .. MaxMonths
    /\ numMonths >= tenorList[1]
    /\ grid \in Grids(tenorList, numMonths)
    /\ numResultsRequested \in -1 .. MaxK
    /\ pc = "call"
    /\ CRFs = << >>
    /\ decisions = << >>
    /\ rowIndex = << >>
    /\ windowCounter = 0
    /\ currentMonth = 0
    /\ candidatePQ = {}
    /\ numResults = 0
    /\ numResultsFound = 0
    /\ results = None
    /\ scalar = None
    /\ prior = None
    /\ construction = None
    /\ counter = None
    /\ loader = None
    /\ exporter = None
    /\ prompt = None
    /\ dataPrompt = None
    /\ recursive = None
    /\ rendering = None

\* ---------------------------------------------------------- BondReturnData
MaxCtorMonths == 2
IntMax == 2147483647

\* The tenor vectors handed to the constructor: any order, repeats, none.
ConstructedTenorLists ==
    { << >>, <<1>>, <<2>>, <<1, 1>>, <<1, 2>>, <<2, 1>>, <<2, 2>> }

\* The grid vectors handed to the constructor for t and m: one HPR in every
\* slot, with the length the shape asks for, or one slot more or less.
ConstructedGrids(t, m) ==
    { [j \in 1 .. len |-> h] :
        len \in { l \in { Len(t) * m - 1, Len(t) * m, Len(t) * m + 1 } : l >= 0 },
        h \in HPRs }

\* The arguments of a constructor call that has not run yet.
InitConstruct ==
    /\ \E t \in ConstructedTenorLists, m \in 0 .. MaxCtorMonths :
         \E g \in ConstructedGrids(t, m) :
             construction = [t |-> t, m |-> m, g |-> g, outcome |-> "args"]
    /\ tenorList = << >>
    /\ numMonths = 0
    /\ grid = << >>
    /\ numResultsRequested \in -1 .. MaxK
    /\ pc = "none"
    /\ CRFs = << >>
    /\ decisions = << >>
    /\ rowIndex = << >>
    /\ windowCounter = 0
    /\ currentMonth = 0
    /\ candidatePQ = {}
    /\ numResults = 0
    /\ numResultsFound = 0
    /\ results = None
    /\ scalar = None
    /\ prior = None
    /\ counter = None
    /\ loader = None
    /\ exporter = None
    /\ prompt = None
    /\ dataPrompt = None
    /\ recursive = None
    /\ rendering = None

\* gridView_[row, month]: the row-major view of grid_ with numMonths_ columns.
gridView(g, t, m) == [c \in Cells(t, m) |-> g[c[1] * m + c[2] + 1]]

\* BondReturnData::BondReturnData: the members are taken from the arguments and
\* the object exists unless one of the three checks throws.
Construct ==
    /\ construction # None
    /\ construction.outcome = "args"
    /\ LET t == construction.t
           m == construction.m
           g == construction.g
       IN IF Len(t) > IntMax \/ m <= 0 \/ Len(g) # Len(t) * m
          THEN /\ construction' = [construction EXCEPT !.outcome = "invalid_argument"]
               /\ UNCHANGED << tenorList, numMonths, grid, pc >>
          ELSE /\ construction' = [construction EXCEPT !.outcome = "constructed"]
               /\ tenorList' = t
               /\ numMonths' = m
               /\ grid' = gridView(g, t, m)
               /\ pc' = "call"
    /\ UNCHANGED << numResultsRequested, CRFs, decisions, rowIndex, windowCounter,
                    currentMonth, candidatePQ, numResults, numResultsFound, results,
                    scalar, prior, counter, loader, exporter, prompt,
                dataPrompt, recursive, rendering >>

\* ---------------------------------------------------- getOptimalSequences
Overflow(value, month) ==
    [kind |-> "overflow",
     direction |-> IF ~signbit(value) THEN "above" ELSE "below",
     month |-> month]

\* Faulty variant: the empty-result guard is tested before the sign of k.
GuardBeforeSign ==
    IF numResultsRequested = 0 \/ numMonths = 0 \/ numTenors = 0 THEN "empty"
    ELSE IF numResultsRequested < 0 THEN "invalid_argument"
    ELSE "run"

\* The argument checks in their order: a negative k throws, then the
\* empty-result guard returns, otherwise the update runs.
CheckedArguments ==
    IF numResultsRequested < 0 THEN "invalid_argument"
    ELSE IF numResultsRequested = 0 \/ numMonths = 0 \/ numTenors = 0 THEN "empty"
    ELSE "run"

\* Faulty variant: the guard throws where it should return nothing.
InvalidArgumentForEmpty == [kind |-> "invalid_argument"]

\* return {{}, {}}
EmptyResults == [kind |-> "ok", CRFs |-> << >>, decisions |-> << >>]

\* Argument checks, allocation of the buffers and the base case.
Call ==
    /\ UNCHANGED components
    /\ pc = "call"
    /\ IF CheckedArguments = "invalid_argument"
       THEN /\ results' = [kind |-> "invalid_argument"]
            /\ pc' = "failed"
            /\ UNCHANGED << CRFs, decisions, rowIndex, windowCounter, currentMonth >>
       ELSE IF CheckedArguments = "empty"
       THEN /\ results' = EmptyResults
            /\ pc' = "done"
            /\ UNCHANGED << CRFs, decisions, rowIndex, windowCounter, currentMonth >>
       ELSE /\ CRFs' = [row \in 0 .. (window - 1) |->
                          [r \in Ranks |-> IF row = 0 /\ r = 0 THEN 1 ELSE NegInf]]
            /\ decisions' = [m \in 0 .. numMonths |->
                               [r \in Ranks |->
                                  IF m = 0 /\ r = 0
                                  THEN [tenor |-> 0, prevRank |-> -1]
                                  ELSE [tenor |-> -1, prevRank |-> -1]]]
            /\ rowIndex' = [m \in 0 .. numMonths |-> 0]
            /\ windowCounter' = 1
            /\ currentMonth' = 1
            /\ pc' = "heads"
            /\ UNCHANGED results
    /\ UNCHANGED << tenorList, numMonths, grid, numResultsRequested, candidatePQ,
                    numResults, numResultsFound, scalar, prior >>

\* Faulty variant: a candidate keeps the rank of the list head.
CandidateOfHeadRank(crf, t, pr, pm, f) ==
    [CRF |-> crf, tenor |-> t, prevRank |-> 0, prevMonth |-> pm, factor |-> f]

Candidate(crf, t, pr, pm, f) ==
    [CRF |-> crf, tenor |-> t, prevRank |-> pr, prevMonth |-> pm, factor |-> f]

\* The rank of the predecessor row a list head extends.
HeadRank == 0

\* Faulty variant: the return is taken for the factor.
ReturnWithoutOne(i, prevMonth) == tenorData(i, prevMonth)

\* The return factor of tenor row i bought at prevMonth.
ReturnFactor(i, prevMonth) == 1 + tenorData(i, prevMonth)

\* The waiting head of month m.
WaitHead(crfs, ri, m) == Candidate(crfs[ri[m - 1]][HeadRank], 0, HeadRank, m - 1, 1)

\* The head of tenor row i for month m (m >= tenor).
TenorHead(crfs, ri, m, i) ==
    LET currentTenor == tenorAt(i)
        prevMonth == m - currentTenor
        factor == ReturnFactor(i, prevMonth)
        prevCRF == crfs[ri[prevMonth]][HeadRank]
    IN Candidate(Mul(prevCRF, factor), currentTenor, HeadRank, prevMonth, factor)

\* Faulty variant: a tenor as long as the month is skipped.
HeadRowsShorterThanMonth(m) == { i \in 0 .. (numTenors - 1) : ~(m <= tenorAt(i)) }

\* The tenor rows that can end at month m.
HeadRows(m) == { i \in 0 .. (numTenors - 1) : ~(m < tenorAt(i)) }

\* Faulty variant: the counter wraps one row before the end of the window.
wrapOneRowEarly(wc) == IF wc + 1 = window - 1 THEN 0 ELSE wc + 1

\* if (++windowCounter == window) windowCounter = 0
nextWindowCounter(wc) == IF wc + 1 = window THEN 0 ELSE wc + 1

\* Start of the month: the row of the month, its reset, and the heap of heads.
BuildHeads ==
    /\ UNCHANGED components
    /\ pc = "heads"
    /\ LET ri == [rowIndex EXCEPT ![currentMonth] = windowCounter]
           crfs == [CRFs EXCEPT ![ri[currentMonth]] = [r \in Ranks |-> NegInf]]
           over == { i \in HeadRows(currentMonth) :
                       isinf(TenorHead(crfs, ri, currentMonth, i).CRF) }
       IN /\ rowIndex' = ri
          /\ windowCounter' = nextWindowCounter(windowCounter)
          /\ CRFs' = crfs
          /\ IF over # {}
             THEN LET first == CHOOSE i \in over : \A j \in over : i <= j
                  IN /\ results' = Overflow(TenorHead(crfs, ri, currentMonth, first).CRF,
                                            currentMonth)
                     /\ pc' = "failed"
                     /\ UNCHANGED << candidatePQ, numResults >>
             ELSE /\ candidatePQ' = { WaitHead(crfs, ri, currentMonth) } \cup
                                    { TenorHead(crfs, ri, currentMonth, i) :
                                        i \in HeadRows(currentMonth) }
                  /\ numResults' = 0
                  /\ pc' = "extract"
                  /\ UNCHANGED results
    /\ UNCHANGED << tenorList, numMonths, grid, numResultsRequested, decisions,
                    currentMonth, numResultsFound, scalar, prior >>

\* compareCandidates: a orders before b when a.CRF < b.CRF.
compareCandidates(a, b) == a.CRF < b.CRF

\* The candidates std::priority_queue::top may return: no other candidate is
\* greater.  Which of several equal candidates is on top depends on the heap.
Tops(pq) == { c \in pq : \A d \in pq : ~compareCandidates(c, d) }

\* Faulty variant: every back-pointer names rank 0 of the predecessor month.
DecisionOfHeadRank(topCandidate) == [tenor |-> topCandidate.tenor, prevRank |-> 0]

\* decisions[currentMonth, numResults, 0 .. 1]
Decision(topCandidate) ==
    [tenor |-> topCandidate.tenor, prevRank |-> topCandidate.prevRank]

\* One pass of the extraction loop: pop, write the rank, advance the list.
Extract ==
    /\ UNCHANGED components
    /\ pc = "extract"
    /\ numResults < numResultsRequested
    /\ candidatePQ # {}
    /\ \E topCandidate \in Tops(candidatePQ) :
         LET row == rowIndex[currentMonth]
             crfs == [CRFs EXCEPT ![row][numResults] = topCandidate.CRF]
             nextRank == topCandidate.prevRank + 1
             prevCRF == crfs[rowIndex[topCandidate.prevMonth]][nextRank]
             nextCRF == Mul(prevCRF, topCandidate.factor)
         IN /\ CRFs' = crfs
            /\ decisions' = [decisions EXCEPT ![currentMonth][numResults] =
                               Decision(topCandidate)]
            /\ numResults' = numResults + 1
            /\ IF nextRank < numResultsRequested /\ prevCRF # NegInf
               THEN IF isinf(nextCRF)
                    THEN /\ results' = Overflow(nextCRF, currentMonth)
                         /\ pc' = "failed"
                         /\ candidatePQ' = candidatePQ \ { topCandidate }
                    ELSE /\ candidatePQ' = (candidatePQ \ { topCandidate }) \cup
                              { Candidate(nextCRF, topCandidate.tenor, nextRank,
                                          topCandidate.prevMonth, topCandidate.factor) }
                         /\ UNCHANGED << results, pc >>
               ELSE /\ candidatePQ' = candidatePQ \ { topCandidate }
                    /\ UNCHANGED << results, pc >>
    /\ UNCHANGED << tenorList, numMonths, grid, numResultsRequested, rowIndex,
                    windowCounter, currentMonth, numResultsFound, scalar, prior >>

\* Faulty variant: every requested rank is taken for found.
RequestedAtMonth == numResultsRequested

\* numResultsFound = numResults
FoundAtMonth == numResults

\* The extraction loop ends: the month's count is kept and the month advances.
EndMonth ==
    /\ UNCHANGED components
    /\ pc = "extract"
    /\ ~(numResults < numResultsRequested /\ candidatePQ # {})
    /\ numResultsFound' = FoundAtMonth
    /\ IF currentMonth + 1 <= numMonths
       THEN /\ currentMonth' = currentMonth + 1
            /\ pc' = "heads"
       ELSE /\ pc' = "reconstruct"
            /\ UNCHANGED currentMonth
    /\ UNCHANGED << tenorList, numMonths, grid, numResultsRequested, CRFs, decisions,
                    rowIndex, windowCounter, candidatePQ, numResults, results,
                    scalar, prior >>

\* ------------------------------------------------------- reconstructPaths
\* A walk is [thrown, path]: thrown when an InvestmentAction constructor
\* rejects its arguments.
Thrown == [thrown |-> TRUE, path |-> << >>]

\* A Buy is emplaced with the walk's currentMonth, the month its bond matures.
BuyStartMonth(currentMonth_, tenorToReachMonth) == currentMonth_

\* The backward walk of one rank (the while loop and the trailing wait).
RECURSIVE Walk(_, _, _, _, _)
Walk(dec, currentMonth_, prevRank, waitStreak, currentPath) ==
    IF ~(currentMonth_ > 0)
    THEN IF waitStreak > 0
         THEN [thrown |-> FALSE,
               path |-> Append(currentPath, InvestmentAction("Wait", 0, waitStreak))]
         ELSE [thrown |-> FALSE, path |-> currentPath]
    ELSE LET tenorToReachMonth == dec[currentMonth_][prevRank].tenor
             nextRank == dec[currentMonth_][prevRank].prevRank
         IN IF tenorToReachMonth = 0
            THEN Walk(dec, currentMonth_ - 1, nextRank, waitStreak + 1, currentPath)
            ELSE LET waited ==
                         IF waitStreak > 0
                         THEN Append(currentPath,
                                     InvestmentAction("Wait", currentMonth_, waitStreak))
                         ELSE currentPath
                     start == BuyStartMonth(currentMonth_, tenorToReachMonth)
                 IN IF ~ActionValid(start, tenorToReachMonth)
                    THEN Thrown
                    ELSE Walk(dec, currentMonth_ - tenorToReachMonth, nextRank, 0,
                              Append(waited,
                                     InvestmentAction("Buy", start, tenorToReachMonth)))

\* The ranks the outer loop reconstructs: it stops at the first unfilled rank.
RECURSIVE ProducedRanks(_, _, _)
ProducedRanks(dec, currentRank, numFound) ==
    IF currentRank < numFound /\ dec[numMonths][currentRank].tenor # -1
    THEN ProducedRanks(dec, currentRank + 1, numFound)
    ELSE currentRank

reconstructPaths(dec, numFound) ==
    LET n == ProducedRanks(dec, 0, numFound)
        walks == [r \in 1 .. n |-> Walk(dec, numMonths, r - 1, 0, << >>)]
    IN IF \E r \in 1 .. n : walks[r].thrown
       THEN Thrown
       ELSE [thrown |-> FALSE, path |-> [r \in 1 .. n |-> Reverse(walks[r].path)]]

\* Faulty variant: the last row of the buffer is taken for the last month.
lastBufferRow == window - 1

\* The row of the window that holds the final month.
finalRowPos == rowIndex[numMonths]

\* Faulty variant: the last row is copied from its last found rank down to rank 0.
finalCRFsFromLastRank ==
    [i \in 1 .. numResultsFound |-> CRFs[finalRowPos][numResultsFound - i]]

\* The ranks found at the final month, copied out of the last row in rank order.
finalCRFs == [i \in 1 .. numResultsFound |-> CRFs[finalRowPos][i - 1]]

\* Reconstruction of the paths and assembly of the result from the last row.
Finish ==
    /\ UNCHANGED components
    /\ pc = "reconstruct"
    /\ LET finalPaths == reconstructPaths(decisions, numResultsFound)
       IN IF finalPaths.thrown
          THEN /\ results' = [kind |-> "invalid_argument"]
               /\ pc' = "failed"
          ELSE /\ results' = [kind |-> "ok",
                              CRFs |-> finalCRFs,
                              decisions |-> finalPaths.path]
               /\ pc' = "done"
    /\ UNCHANGED << tenorList, numMonths, grid, numResultsRequested, CRFs, decisions,
                    rowIndex, windowCounter, currentMonth, candidatePQ, numResults,
                    numResultsFound, scalar, prior >>

\* ------------------------------------------------------------ optimiseCRF
\* The tenor loop of one month: the best of waiting and of every tenor that
\* can end at the month (the loop breaks at the first tenor that is too long).
RECURSIVE TenorLoop(_, _, _, _, _)
TenorLoop(i, month, monthlyBestCRF, currentMonthBestCRF, bestTenorToReachMonth) ==
    IF ~(i < numTenors) \/ month < tenorAt(i)
    THEN << currentMonthBestCRF, bestTenorToReachMonth >>
    ELSE LET currentTenor == tenorAt(i)
             returnFactor == 1 + tenorData(i, month - currentTenor)
             currentCRF == Mul(monthlyBestCRF[month - currentTenor], returnFactor)
         IN IF Gt(currentCRF, currentMonthBestCRF)
            THEN TenorLoop(i + 1, month, monthlyBestCRF, currentCRF, currentTenor)
            ELSE TenorLoop(i + 1, month, monthlyBestCRF, currentMonthBestCRF,
                           bestTenorToReachMonth)

\* The month loop: [CRF, tenor], each a table over the months 0 .. numMonths.
RECURSIVE MonthLoop(_, _, _)
MonthLoop(month, monthlyBestCRF, monthlyBestTenor) ==
    IF ~(month <= numMonths)
    THEN [CRF |-> monthlyBestCRF, tenor |-> monthlyBestTenor]
    ELSE LET best == TenorLoop(0, month, monthlyBestCRF, monthlyBestCRF[month - 1], 0)
         IN MonthLoop(month + 1,
                      [monthlyBestCRF EXCEPT ![month] = best[1]],
                      [monthlyBestTenor EXCEPT ![month] = best[2]])

ScalarTables ==
    MonthLoop(1, [m \in 0 .. numMonths |-> 1], [m \in 0 .. numMonths |-> 0])

\* The backward walk of optimiseCRF.
RECURSIVE ScalarWalk(_, _, _, _)
ScalarWalk(monthlyBestTenor, month, waitStreak, optimalChoices) ==
    IF ~(month > 0)
    THEN IF waitStreak > 0
         THEN [thrown |-> FALSE,
               path |-> Append(optimalChoices, InvestmentAction("Wait", 0, waitStreak))]
         ELSE [thrown |-> FALSE, path |-> optimalChoices]
    ELSE LET bestTenorToReachMonth == monthlyBestTenor[month]
         IN IF bestTenorToReachMonth = 0
            THEN ScalarWalk(monthlyBestTenor, month - 1, waitStreak + 1, optimalChoices)
            ELSE IF waitStreak > 0 /\ ~ActionValid(month - waitStreak, waitStreak)
            THEN Thrown
            ELSE LET waited ==
                         IF waitStreak > 0
                         THEN Append(optimalChoices,
                                     InvestmentAction("Wait", month - waitStreak,
                                                      waitStreak))
                         ELSE optimalChoices
                 IN ScalarWalk(monthlyBestTenor, month - bestTenorToReachMonth, 0,
                               Append(waited,
                                      InvestmentAction("Buy",
                                                       month - bestTenorToReachMonth,
                                                       bestTenorToReachMonth)))

optimiseCRF ==
    LET t == ScalarTables
        w == ScalarWalk(t.tenor, numMonths, 0, << >>)
    IN IF w.thrown
       THEN [kind |-> "invalid_argument"]
       ELSE [kind |-> "ok", CRF |-> t.CRF[numMonths], choices |-> Reverse(w.path)]

\* optimiseCRF is run on the matrix of the finished call.
CallOptimiseCRF ==
    /\ UNCHANGED components
    /\ pc \in { "done", "failed" }
    /\ scalar = None
    /\ scalar' = optimiseCRF
    /\ UNCHANGED << tenorList, numMonths, grid, numResultsRequested, pc, CRFs,
                    decisions, rowIndex, windowCounter, currentMonth, candidatePQ,
                    numResults, numResultsFound, results, prior >>

\* The engine is run again on the same matrix with k = 1; k and the CRFs (or
\* the error) of the finished call are kept in prior.
Rerun ==
    /\ UNCHANGED components
    /\ pc \in { "done", "failed" }
    /\ scalar # None
    /\ prior = None
    /\ numResultsRequested >= 1
    /\ prior' = IF results.kind = "ok"
                THEN [kind |-> "ok", k |-> numResultsRequested, CRFs |-> results.CRFs]
                ELSE [kind |-> results.kind, k |-> numResultsRequested]
    /\ numResultsRequested' = 1
    /\ pc' = "call"
    /\ CRFs' = << >>
    /\ decisions' = << >>
    /\ rowIndex' = << >>
    /\ windowCounter' = 0
    /\ currentMonth' = 0
    /\ candidatePQ' = {}
    /\ numResults' = 0
    /\ numResultsFound' = 0
    /\ results' = None
    /\ UNCHANGED << tenorList, numMonths, grid, scalar >>

Next ==
    \/ Call
    \/ BuildHeads
    \/ Extract
    \/ EndMonth
    \/ Finish
    \/ CallOptimiseCRF
    \/ Rerun

Spec == Init /\ [][Next]_vars

\* A matrix is constructed from raw arguments and handed to getOptimalSequences.
NextConstruct ==
    \/ Construct
    \/ Call
    \/ BuildHeads
    \/ Extract
    \/ EndMonth
    \/ Finish

SpecConstruct == InitConstruct /\ [][NextConstruct]_vars

\* -------------------------------------------------------- loadBondReturnCSV
MaxCSVRows == 3
MaxCSVMonths == 2

\* The tenor cell of a data row as parseTenor reads it: 0 stands for a cell it
\* rejects, the others are positive tenors.
CSVTenors == 0 .. 3

\* A line below the header: blank, or a tenor cell followed by width return cells.
Blank == [tenor |-> -1, width |-> 0]
CSVRows(M) ==
    { Blank } \cup
    { [tenor |-> n, width |-> w] : n \in CSVTenors, w \in { M - 1, M, M + 1 } }

RECURSIVE SeqsUpTo(_, _)
SeqsUpTo(S, n) ==
    IF n = 0 THEN { << >> }
    ELSE SeqsUpTo(S, n - 1) \cup
         { Append(q, x) : q \in { p \in SeqsUpTo(S, n - 1) : Len(p) = n - 1 }, x \in S }

\* The return parsed from the cell of column month in the line at position row
\* of the file: every cell of the file holds its own value.
CellValue(row, month) == 10 * row + month

\* A file: whether its path and extension are accepted and it can be read, what
\* its header row is ("none" for a file without one, "mislabelled" for one that
\* numMonthsInHeader rejects), the months the header gives, and its lines below
\* the header.
CSVFiles ==
    { [path |-> "invalid", header |-> "ok", months |-> 1, rows |-> << >>] } \cup
    { [path |-> "valid", header |-> h, months |-> 0, rows |-> << >>] :
        h \in { "none", "mislabelled", "ok" } } \cup
    UNION { { [path |-> "valid", header |-> "ok", months |-> M, rows |-> r] :
                r \in SeqsUpTo(CSVRows(M), MaxCSVRows) } : M \in 1 .. MaxCSVMonths }

InitLoad ==
    /\ \E f \in CSVFiles :
         loader = [pc |-> "open", csv |-> f, currentRowNum |-> 0, numMonths |-> 0,
                   tenorsUnsorted |-> << >>, gridUnsorted |-> << >>,
                   tenorsSeen |-> {}]
    /\ tenorList = << >>
    /\ numMonths = 0
    /\ grid = << >>
    /\ numResultsRequested = 0
    /\ pc = "none"
    /\ CRFs = << >>
    /\ decisions = << >>
    /\ rowIndex = << >>
    /\ windowCounter = 0
    /\ currentMonth = 0
    /\ candidatePQ = {}
    /\ numResults = 0
    /\ numResultsFound = 0
    /\ results = None
    /\ scalar = None
    /\ prior = None
    /\ construction = None
    /\ counter = None
    /\ exporter = None
    /\ prompt = None
    /\ dataPrompt = None
    /\ recursive = None
    /\ rendering = None

\* Everything but the call of the loader and the matrix it constructs.
notLoader == << numResultsRequested, pc, CRFs, decisions, rowIndex, windowCounter,
                currentMonth, candidatePQ, numResults, numResultsFound, results,
                scalar, prior, construction, counter, exporter, prompt,
                dataPrompt, recursive, rendering >>

\* The path is validated, the file opened and the header read.
OpenCSV ==
    /\ loader # None
    /\ loader.pc = "open"
    /\ LET f == loader.csv
       IN IF f.path # "valid" \/ f.header # "ok"
          THEN loader' = [loader EXCEPT !.pc = "csv_error"]
          ELSE IF f.months = 0
          THEN loader' = [loader EXCEPT !.pc = "csv_error"]
          ELSE loader' = [loader EXCEPT !.pc = "rows", !.numMonths = f.months]
    /\ UNCHANGED << tenorList, numMonths, grid >>
    /\ UNCHANGED notLoader

\* The indices gridUnsorted[base + currentMonth] at which the returns of a row
\* of width cells are stored.
StoredAt(base, width) == { base + currentMonth_ : currentMonth_ \in 0 .. (width - 1) }

\* The slots gridUnsorted.resize(base + numMonths) adds for the row.
SlotsOfRow(base, numMonths_) == base .. (base + numMonths_ - 1)

\* One pass of the while loop of loadData over the next line.
LoadRow ==
    /\ loader # None
    /\ loader.pc = "rows"
    /\ loader.currentRowNum < Len(loader.csv.rows)
    /\ LET currentRowNum == loader.currentRowNum + 1
           row == loader.csv.rows[currentRowNum]
           currentTenor == row.tenor
           base == Len(loader.gridUnsorted)
           written == [j \in 1 .. loader.numMonths |->
                          IF j <= row.width THEN CellValue(currentRowNum, j - 1) ELSE 0]
       IN IF row = Blank
          THEN loader' = [loader EXCEPT !.currentRowNum = currentRowNum]
          ELSE IF currentTenor <= 0 \/ currentTenor \in loader.tenorsSeen
          THEN loader' = [loader EXCEPT !.currentRowNum = currentRowNum,
                                        !.pc = "csv_error"]
          ELSE IF ~(StoredAt(base, row.width) \subseteq SlotsOfRow(base, loader.numMonths))
          THEN \* a cell is stored at gridUnsorted[base + numMonths], past the end
               \E outcome \in { "csv_error", "undefined" } :
                   loader' = [loader EXCEPT !.currentRowNum = currentRowNum,
                                            !.pc = outcome]
          ELSE loader' = [loader EXCEPT
                   !.currentRowNum = currentRowNum,
                   !.tenorsSeen = loader.tenorsSeen \cup { currentTenor },
                   !.tenorsUnsorted = Append(loader.tenorsUnsorted, currentTenor),
                   !.gridUnsorted = loader.gridUnsorted \o written,
                   !.pc = IF row.width # loader.numMonths THEN "csv_error" ELSE "rows"]
    /\ UNCHANGED << tenorList, numMonths, grid >>
    /\ UNCHANGED notLoader

\* The stream is at its end: data without a row is rejected.
EndOfRows ==
    /\ loader # None
    /\ loader.pc = "rows"
    /\ ~(loader.currentRowNum < Len(loader.csv.rows))
    /\ loader' = [loader EXCEPT
           !.pc = IF loader.tenorsUnsorted = << >> THEN "csv_error" ELSE "sort"]
    /\ UNCHANGED << tenorList, numMonths, grid >>
    /\ UNCHANGED notLoader

\* sortedIndices[r]: the index in tenorsUnsorted of the r-th tenor in ascending
\* order (the tenors are distinct).
sortedIndices(tenorsUnsorted, r) ==
    CHOOSE sourceIndex \in 0 .. (Len(tenorsUnsorted) - 1) :
        Cardinality({ j \in 0 .. (Len(tenorsUnsorted) - 1) :
                        tenorsUnsorted[j + 1] < tenorsUnsorted[sourceIndex + 1] }) = r

\* Faulty variant: the row is copied from its own place in the unsorted grid.
RowStartUnpermuted(sourceIndex, r, numMonths_) == r * numMonths_

\* &gridUnsorted[sourceIndex * numMonths]
RowStart(sourceIndex, r, numMonths_) == sourceIndex * numMonths_

tenorsSorted(tenorsUnsorted) ==
    [r \in 1 .. Len(tenorsUnsorted) |->
        tenorsUnsorted[sortedIndices(tenorsUnsorted, r - 1) + 1]]
gridSorted(tenorsUnsorted, gridUnsorted, numMonths_) ==
    [p \in 1 .. Len(gridUnsorted) |->
        LET r == (p - 1) \div numMonths_
            month == (p - 1) % numMonths_
        IN gridUnsorted[RowStart(sortedIndices(tenorsUnsorted, r), r, numMonths_)
                          + month + 1]]

\* sortData and the construction of the BondReturnData.
SortData ==
    /\ loader # None
    /\ loader.pc = "sort"
    /\ LET t == tenorsSorted(loader.tenorsUnsorted)
           m == loader.numMonths
           g == gridSorted(loader.tenorsUnsorted, loader.gridUnsorted, m)
           shortestTenor == loader.tenorsUnsorted[sortedIndices(loader.tenorsUnsorted, 0) + 1]
       IN IF m < shortestTenor
          THEN /\ loader' = [loader EXCEPT !.pc = "csv_error"]
               /\ UNCHANGED << tenorList, numMonths, grid >>
          ELSE IF Len(t) > IntMax \/ m <= 0 \/ Len(g) # Len(t) * m
          THEN /\ loader' = [loader EXCEPT !.pc = "invalid_argument"]
               /\ UNCHANGED << tenorList, numMonths, grid >>
          ELSE /\ loader' = [loader EXCEPT !.pc = "loaded"]
               /\ tenorList' = t
               /\ numMonths' = m
               /\ grid' = gridView(g, t, m)
    /\ UNCHANGED notLoader

NextLoad ==
    \/ OpenCSV
    \/ LoadRow
    \/ EndOfRows
    \/ SortData

SpecLoad == InitLoad /\ [][NextLoad]_vars

\* --------------------------------------------------- generateOutputFilename
RESULT_FILES_LIMIT == 10000
MaxSmallFiles == 3

\* std::format("{}.csv", RESULTS_FILENAME) and std::format("{}_{}.csv",
\* RESULTS_FILENAME, i): a file name is its stem and the number after it, 0 for
\* a name without a number.
baseCandidate == [stem |-> "bond_results", number |-> 0, extension |-> "csv"]
numCandidate(i) == [stem |-> "bond_results", number |-> i, extension |-> "csv"]

\* The names the function can return.
Candidates == { baseCandidate } \cup { numCandidate(i) : i \in 2 .. RESULT_FILES_LIMIT }

\* The result files in dir, listed as ranges << first, last >> of their numbers:
\* a few files (bond_results_1.csv is a file name but not a candidate), or
\* every candidate, or every candidate but the first or the last.  The status
\* of every entry can be read.
Directories ==
    { { << n, n >> : n \in S } : S \in SUBSET (0 .. MaxSmallFiles) } \cup
    { { << 0, 0 >>, << 2, RESULT_FILES_LIMIT >> },
      { << 2, RESULT_FILES_LIMIT >> },
      { << 0, 0 >>, << 2, RESULT_FILES_LIMIT - 1 >> } }

\* The file is in the listing.
Listed(files, name) ==
    /\ name.stem = "bond_results"
    /\ name.extension = "csv"
    /\ \E r \in files : r[1] <= name.number /\ name.number <= r[2]

InitExport ==
    /\ \E isDir \in BOOLEAN, files \in Directories :
         /\ ~isDir => files = {}
         /\ exporter = [pc |-> "call", is_directory |-> isDir, files |-> files,
                        i |-> 0, result |-> None]
    /\ tenorList = << >>
    /\ numMonths = 0
    /\ grid = << >>
    /\ numResultsRequested = 0
    /\ pc = "none"
    /\ CRFs = << >>
    /\ decisions = << >>
    /\ rowIndex = << >>
    /\ windowCounter = 0
    /\ currentMonth = 0
    /\ candidatePQ = {}
    /\ numResults = 0
    /\ numResultsFound = 0
    /\ results = None
    /\ scalar = None
    /\ prior = None
    /\ construction = None
    /\ counter = None
    /\ loader = None
    /\ prompt = None
    /\ dataPrompt = None
    /\ recursive = None
    /\ rendering = None

\* Everything but the call of generateOutputFilename.
notExporter == << tenorList, numMonths, grid, numResultsRequested, pc, CRFs, decisions,
                  rowIndex, windowCounter, currentMonth, candidatePQ, numResults,
                  numResultsFound, results, scalar, prior, construction, counter,
                  loader, prompt,
                dataPrompt, recursive, rendering >>

\* std::filesystem::exists(candidate, ec)
exists(candidate) == Listed(exporter.files, candidate)

\* Faulty variant: the loop stops one number short of the limit.
BelowLimit(i) == i < RESULT_FILES_LIMIT

\* The loop condition i <= RESULT_FILES_LIMIT
WithinLimit(i) == i <= RESULT_FILES_LIMIT

\* The directory check and the base name.
CheckBase ==
    /\ exporter # None
    /\ exporter.pc = "call"
    /\ IF ~exporter.is_directory
       THEN exporter' = [exporter EXCEPT
                !.pc = "failed",
                !.result = [kind |-> "FilenameGenerationError",
                            what |-> "Unable to access directory"]]
       ELSE IF ~exists(baseCandidate)
       THEN exporter' = [exporter EXCEPT
                !.pc = "returned",
                !.result = [kind |-> "path", filename |-> baseCandidate]]
       ELSE exporter' = [exporter EXCEPT !.pc = "loop", !.i = 2]
    /\ UNCHANGED notExporter

\* One pass of the loop over the numbered names.
CheckNumbered ==
    /\ exporter # None
    /\ exporter.pc = "loop"
    /\ WithinLimit(exporter.i)
    /\ IF ~exists(numCandidate(exporter.i))
       THEN exporter' = [exporter EXCEPT
                !.pc = "returned",
                !.result = [kind |-> "path", filename |-> numCandidate(exporter.i)]]
       ELSE exporter' = [exporter EXCEPT !.i = exporter.i + 1]
    /\ UNCHANGED notExporter

\* The loop ends without a free name.
TooManyResultFiles ==
    /\ exporter # None
    /\ exporter.pc = "loop"
    /\ ~WithinLimit(exporter.i)
    /\ exporter' = [exporter EXCEPT
           !.pc = "failed",
           !.result = [kind |-> "FilenameGenerationError",
                       what |-> "Too many result files exist"]]
    /\ UNCHANGED notExporter

NextExport ==
    \/ CheckBase
    \/ CheckNumbered
    \/ TooManyResultFiles

SpecExport == InitExport /\ [][NextExport]_vars

\* ------------------------------------------------------ getNumResultsPrompt
REQUEST_WARNING_NUM == 1000000
MaxInputs == 3

\* A line of input is its sequence of characters.
Digits == << "0", "1", "2", "3", "4", "5", "6", "7", "8", "9" >>
IsDigit(c) == \E i \in 1 .. 10 : Digits[i] = c
DigitValue(c) == (CHOOSE i \in 1 .. 10 : Digits[i] = c) - 1
IntMin == (-IntMax) - 1

Lines ==
    { << >>, << "y" >>, << "Y" >>, << "n" >>, << "0" >>, << "-", "1" >>, << "7" >>,
      << "0", "7" >>, << "7", "x" >>, << "+", "7" >>,
      << "1", "0", "0", "0", "0", "0", "0" >>,
      << "1", "0", "0", "0", "0", "0", "1" >>,
      << "3", "0", "0", "0", "0", "0", "0", "0", "0", "0" >> }

\* Helpers::Strings::svToLowercase, on the letters of Lines.
svToLowercase(sv) == [i \in 1 .. Len(sv) |-> IF sv[i] = "Y" THEN "y" ELSE sv[i]]

\* The digits of sv from position p on, accumulated into value with the sign
\* given; out of range as soon as the value leaves the int range.
RECURSIVE ParseDigits(_, _, _, _, _)
ParseDigits(sv, p, negative, value, outOfRange) ==
    IF p > Len(sv) \/ ~IsDigit(sv[p])
    THEN [ptr |-> p, value |-> value, outOfRange |-> outOfRange]
    ELSE LET digit == DigitValue(sv[p])
             fits == IF negative
                     THEN value >= (IntMin + digit + 9) \div 10
                     ELSE value <= (IntMax - digit) \div 10
         IN  IF outOfRange \/ ~fits
             THEN ParseDigits(sv, p + 1, negative, value, TRUE)
             ELSE ParseDigits(sv, p + 1, negative,
                              IF negative THEN value * 10 - digit ELSE value * 10 + digit,
                              FALSE)

\* std::from_chars(sv.data(), sv.data() + sv.size(), result) for int: an
\* optional minus sign, then decimal digits; ptr is the position after the
\* last character used.
from_chars(sv) ==
    LET negative == Len(sv) >= 1 /\ sv[1] = "-"
        first == IF negative THEN 2 ELSE 1
        parsed == ParseDigits(sv, first, negative, 0, FALSE)
    IN  IF parsed.ptr = first
        THEN [ec |-> "invalid_argument", ptr |-> 1, result |-> 0]
        ELSE IF parsed.outOfRange
        THEN [ec |-> "result_out_of_range", ptr |-> parsed.ptr, result |-> 0]
        ELSE [ec |-> "ok", ptr |-> parsed.ptr, result |-> parsed.value]

Escape == [kind |-> "escape"]
Retry == [kind |-> "retry"]
Value(v) == [kind |-> "value", value |-> v]

\* makePositiveIntTransformer with the default options (escape token "", quit
\* word "quit"): the empty line asks for confirmQuit, which the caller models
\* as a second read.
positiveInt(sv) ==
    LET r == from_chars(sv)
    IN  IF sv = << >> THEN [kind |-> "confirmQuit"]
        ELSE IF r.ec = "result_out_of_range" THEN Retry
        ELSE IF r.ec = "invalid_argument" \/ r.ptr # Len(sv) + 1 THEN Retry
        ELSE IF r.result <= 0 THEN Retry
        ELSE Value(r.result)

\* makeMappingTransformer<bool> with entries {{"y", true}}, case-insensitive,
\* escape token "" and an empty quit word.
mapping(sv) ==
    IF svToLowercase(sv) = svToLowercase(<< >>) THEN Escape
    ELSE IF svToLowercase(sv) = << "y" >> THEN Value(TRUE)
    ELSE Retry

\* Faulty variant: no number of results is large enough for the warning.
NeverWarns(numResultsRequested_) == FALSE

\* numResultsRequested > REQUEST_WARNING_NUM
NeedsWarning(numResultsRequested_) == numResultsRequested_ > REQUEST_WARNING_NUM

\* Standard input holds linesLeft more lines before its end; consumed is what
\* has been read from it.
InitPrompt ==
    /\ \E n \in 0 .. MaxInputs :
         prompt = [pc |-> "number", linesLeft |-> n, consumed |-> << >>,
                   numResultsPromptResult |-> None,
                   printFallbackPromptResult |-> None, result |-> None]
    /\ tenorList = << >>
    /\ numMonths = 0
    /\ grid = << >>
    /\ numResultsRequested = 0
    /\ pc = "none"
    /\ CRFs = << >>
    /\ decisions = << >>
    /\ rowIndex = << >>
    /\ windowCounter = 0
    /\ currentMonth = 0
    /\ candidatePQ = {}
    /\ numResults = 0
    /\ numResultsFound = 0
    /\ results = None
    /\ scalar = None
    /\ prior = None
    /\ construction = None
    /\ counter = None
    /\ loader = None
    /\ exporter = None
    /\ dataPrompt = None
    /\ recursive = None
    /\ rendering = None

\* Everything but the prompt.
notPrompt == << tenorList, numMonths, grid, numResultsRequested, pc, CRFs, decisions,
                rowIndex, windowCounter, currentMonth, candidatePQ, numResults,
                numResultsFound, results, scalar, prior, construction, counter,
                loader, exporter,
                dataPrompt, recursive, rendering >>

\* The prompt returns numResultsPromptResult.
ReturnFrom(p, r) == [p EXCEPT !.pc = "returned", !.numResultsPromptResult = r, !.result = r]

\* std::getline(std::cin, input) succeeds and gives sv.
getline(p, sv) == [p EXCEPT !.linesLeft = p.linesLeft - 1, !.consumed = Append(p.consumed, sv)]

\* The outer loop of getNumResultsPrompt starts again.
Continue(p) == [p EXCEPT !.pc = "number", !.numResultsPromptResult = None,
                         !.printFallbackPromptResult = None]

\* One read of the number prompt: the end of the input is an escape, a valid
\* number is returned or leads to the warning, anything else is asked again.
ReadNumber ==
    /\ prompt # None
    /\ prompt.pc = "number"
    /\ IF prompt.linesLeft = 0
       THEN prompt' = ReturnFrom(prompt, Escape)
       ELSE \E sv \in Lines :
              LET read == getline(prompt, sv)
                  r == positiveInt(sv)
              IN  IF r.kind = "confirmQuit"
                  THEN prompt' = [read EXCEPT !.pc = "confirmQuit"]
                  ELSE IF r.kind = "retry"
                  THEN prompt' = read
                  ELSE IF NeedsWarning(r.value)
                  THEN prompt' = [read EXCEPT !.pc = "warning", !.numResultsPromptResult = r]
                  ELSE prompt' = ReturnFrom(read, r)
    /\ UNCHANGED notPrompt

\* Helpers::Quit::confirmQuit after an empty line at the number prompt: the
\* end of the input or an empty line confirms, anything else goes back.
ConfirmQuit ==
    /\ prompt # None
    /\ prompt.pc = "confirmQuit"
    /\ IF prompt.linesLeft = 0
       THEN prompt' = ReturnFrom(prompt, Escape)
       ELSE \E sv \in Lines :
              IF sv = << >>
              THEN prompt' = ReturnFrom(getline(prompt, sv), Escape)
              ELSE prompt' = [getline(prompt, sv) EXCEPT !.pc = "number"]
    /\ UNCHANGED notPrompt

\* One read of the warning prompt: "y" returns the number, the empty line or
\* the end of the input starts the outer loop again, anything else is asked
\* again.
ReadWarning ==
    /\ prompt # None
    /\ prompt.pc = "warning"
    /\ IF prompt.linesLeft = 0
       THEN prompt' = Continue(prompt)
       ELSE \E sv \in Lines :
              LET read == getline(prompt, sv)
                  r == mapping(sv)
              IN  IF r.kind = "retry"
                  THEN prompt' = read
                  ELSE IF r.kind = "escape"
                  THEN prompt' = Continue(read)
                  ELSE prompt' = [ReturnFrom(read, prompt.numResultsPromptResult)
                                      EXCEPT !.printFallbackPromptResult = r]
    /\ UNCHANGED notPrompt

NextPrompt ==
    \/ ReadNumber
    \/ ConfirmQuit
    \/ ReadWarning

\* The prompt keeps reading while it has not returned.
SpecPrompt == InitPrompt /\ [][NextPrompt]_vars /\ WF_vars(NextPrompt)

\* --------------------------------------------------------------- countPaths
\* The tenor lists and horizons countPaths is called with.
CountedTenorLists == TenorLists \cup { <<3, 6, 12>> }
CountedHorizons == (1 .. MaxMonths) \cup { 12, 49, 50, 80, 91, 92, 100 }

InitCount ==
    /\ \E tl \in CountedTenorLists, M \in CountedHorizons :
         counter = [pc |-> "call", tenors |-> tl, tenorList |-> tl, numMonths |-> M,
                    numPaths |-> << >>, numPathsApprox |-> << >>,
                    overflowed |-> FALSE, i |-> 0, t |-> 0, result |-> None]
    /\ tenorList = << >>
    /\ numMonths = 0
    /\ grid = << >>
    /\ numResultsRequested = 0
    /\ pc = "none"
    /\ CRFs = << >>
    /\ decisions = << >>
    /\ rowIndex = << >>
    /\ windowCounter = 0
    /\ currentMonth = 0
    /\ candidatePQ = {}
    /\ numResults = 0
    /\ numResultsFound = 0
    /\ results = None
    /\ scalar = None
    /\ prior = None
    /\ construction = None
    /\ loader = None
    /\ exporter = None
    /\ prompt = None
    /\ dataPrompt = None
    /\ recursive = None
    /\ rendering = None

\* Everything but the call of countPaths.
notCounter == << tenorList, numMonths, grid, numResultsRequested, pc, CRFs, decisions,
                 rowIndex, windowCounter, currentMonth, candidatePQ, numResults,
                 numResultsFound, results, scalar, prior, construction, loader,
                 exporter, prompt,
                dataPrompt, recursive, rendering >>

\* Faulty variant: no step is added for waiting.
WithoutWaitStep(tl) == tl

\* tenorList.insert(tenorList.begin(), 1): the unit wait as a tenor of 1.
WithWaitStep(tl) == << 1 >> \o tl

\* Entry: the wait step is inserted into the copy of the caller's tenors,
\* numPaths is zero but for numPaths[0] = 1.
CountPathsCall ==
    /\ counter # None
    /\ counter.pc = "call"
    /\ counter' = [counter EXCEPT
           !.tenorList = WithWaitStep(counter.tenorList),
           !.numPaths = [m \in 0 .. counter.numMonths |-> IF m = 0 THEN One ELSE Zero],
           !.i = 1,
           !.t = 1,
           !.pc = "loop"]
    /\ UNCHANGED notCounter

\* The loop is at month i and at the tenor of position t, which fits the month.
AtTenor ==
    /\ counter # None
    /\ counter.pc = "loop"
    /\ counter.i < counter.numMonths + 1
    /\ counter.t <= Len(counter.tenorList)
    /\ ~(counter.tenorList[counter.t] > counter.i)

\* Faulty variant: the headroom is never found too small.
NeverOverflows(sum, addend) == FALSE

\* The check before an addition: the headroom left above the partial sum is
\* less than the addend.
WouldOverflow(sum, addend) == BigLess(BigSub(LLMax, sum), addend)

\* numPaths[i] += numPaths[i - t]
AddExact ==
    /\ AtTenor
    /\ ~counter.overflowed
    /\ LET i == counter.i
           t == counter.tenorList[counter.t]
       IN /\ ~WouldOverflow(counter.numPaths[i], counter.numPaths[i - t])
          /\ counter' = [counter EXCEPT
                 !.numPaths[i] = BigAdd(counter.numPaths[i], counter.numPaths[i - t]),
                 !.t = counter.t + 1]
    /\ UNCHANGED notCounter

\* Faulty variant: the addend that did not fit is left out of the promoted sum.
PromotedPartialOnly(partial, addend) == ToDouble(partial)

\* static_cast<double>(numPaths[i]) + static_cast<double>(numPaths[i - t])
PromotedSum(partial, addend) == DoubleAdd(ToDouble(partial), ToDouble(addend))

\* The switch to approximate mode: the months before i are converted, month i
\* is the converted partial sum plus the converted addend.
Promote ==
    /\ AtTenor
    /\ ~counter.overflowed
    /\ LET i == counter.i
           t == counter.tenorList[counter.t]
       IN /\ WouldOverflow(counter.numPaths[i], counter.numPaths[i - t])
          /\ counter' = [counter EXCEPT
                 !.overflowed = TRUE,
                 !.numPathsApprox =
                     [j \in 0 .. counter.numMonths |->
                         IF j < i THEN ToDouble(counter.numPaths[j])
                         ELSE IF j = i
                         THEN PromotedSum(counter.numPaths[i], counter.numPaths[i - t])
                         ELSE Zero],
                 !.t = counter.t + 1]
    /\ UNCHANGED notCounter

\* numPathsApprox[i] += numPathsApprox[i - t]
AddApprox ==
    /\ AtTenor
    /\ counter.overflowed
    /\ LET i == counter.i
           t == counter.tenorList[counter.t]
       IN counter' = [counter EXCEPT
              !.numPathsApprox[i] = DoubleAdd(counter.numPathsApprox[i],
                                              counter.numPathsApprox[i - t]),
              !.t = counter.t + 1]
    /\ UNCHANGED notCounter

\* The tenor loop of month i ends: the list is exhausted or the tenor is longer
\* than the month (break).
NextMonth ==
    /\ counter # None
    /\ counter.pc = "loop"
    /\ counter.i < counter.numMonths + 1
    /\ IF counter.t > Len(counter.tenorList)
       THEN TRUE
       ELSE counter.tenorList[counter.t] > counter.i
    /\ counter' = [counter EXCEPT !.i = counter.i + 1, !.t = 1]
    /\ UNCHANGED notCounter

ExactCount(value) == [kind |-> "Exact", value |-> value]
ApproxCount(value) == [kind |-> "Approx", value |-> value]

CountPathsReturn ==
    /\ counter # None
    /\ counter.pc = "loop"
    /\ ~(counter.i < counter.numMonths + 1)
    /\ counter' = [counter EXCEPT
           !.pc = "returned",
           !.result = IF counter.overflowed
                      THEN ApproxCount(counter.numPathsApprox[counter.numMonths])
                      ELSE ExactCount(counter.numPaths[counter.numMonths])]
    /\ UNCHANGED notCounter

NextCount ==
    \/ CountPathsCall
    \/ AddExact
    \/ Promote
    \/ AddApprox
    \/ NextMonth
    \/ CountPathsReturn

SpecCount == InitCount /\ [][NextCount]_vars

\* ------------------------------------------------------------- getDataPrompt
\* The prompt for the data file: runPromptLoop around the transformer of
\* getDataPrompt, which calls loadBondReturnCSV on the line the user entered.

\* Lines on standard input before its end.
MaxDataLines == 2

\* What the user enters at the prompt: nothing, a request for help, or a path;
\* the file at the path is any of CSVFiles.
DataLines == { << >>, << "h" >>, << "H" >>, << "h", "h" >>, << "p" >> }

\* What the user enters when asked to confirm: nothing, or anything else.
ConfirmLines == { << >>, << "h" >>, << "p" >> }

\* Detail::charToLowercaseSafe, on the letters of DataLines.
charToLowercaseSafe(c) == IF c = "H" THEN "h" ELSE c

svCaseInsensitiveCompare(sv1, sv2) ==
    /\ Len(sv1) = Len(sv2)
    /\ \A i \in 1 .. Len(sv1) : charToLowercaseSafe(sv1[i]) = charToLowercaseSafe(sv2[i])

InitData ==
    /\ dataPrompt = [pc |-> "prompt", linesLeft |-> MaxDataLines, input |-> << >>,
                     eof |-> FALSE, retryMessage |-> "", result |-> "none"]
    /\ loader = None
    /\ tenorList = << >>
    /\ numMonths = 0
    /\ grid = << >>
    /\ numResultsRequested = 0
    /\ pc = "none"
    /\ CRFs = << >>
    /\ decisions = << >>
    /\ rowIndex = << >>
    /\ windowCounter = 0
    /\ currentMonth = 0
    /\ candidatePQ = {}
    /\ numResults = 0
    /\ numResultsFound = 0
    /\ results = None
    /\ scalar = None
    /\ prior = None
    /\ construction = None
    /\ counter = None
    /\ exporter = None
    /\ prompt = None
    /\ recursive = None
    /\ rendering = None

\* Everything but the data prompt, the loader it calls and the matrix loaded.
notData == << numResultsRequested, pc, CRFs, decisions, rowIndex, windowCounter,
              currentMonth, candidatePQ, numResults, numResultsFound, results,
              scalar, prior, construction, counter, exporter, prompt, recursive,
              rendering >>

\* The transformer returned Retry(message): the message is printed when it is
\* not empty and the loop continues with the prompt.
RetryWith(p, message) == [p EXCEPT !.pc = "prompt", !.retryMessage = message]

\* The transformer returned Escape, or std::getline failed.
EscapeFrom(p) == [p EXCEPT !.pc = "done", !.result = "escape"]

\* catch (const CSVError& e) of the transformer, as if it gave up.
EscapeOnCSVError(p) == EscapeFrom(p)

\* catch (const CSVError& e) of the transformer.
OnCSVError(p) == RetryWith(p, "Failed to load data")

\* The prompt is printed and a line read; the transformer runs up to its call
\* of confirmQuit or of loadBondReturnCSV.
PromptForData ==
    /\ dataPrompt # None
    /\ dataPrompt.pc = "prompt"
    /\ IF dataPrompt.linesLeft = 0
       THEN /\ dataPrompt' = EscapeFrom([dataPrompt EXCEPT !.input = << >>, !.eof = TRUE])
            /\ UNCHANGED loader
       ELSE \E sv \in DataLines :
              LET read == [dataPrompt EXCEPT !.linesLeft = dataPrompt.linesLeft - 1,
                                             !.input = << sv >>]
              IN IF sv = << >>
                 THEN /\ dataPrompt' = [read EXCEPT !.pc = "confirmQuit"]
                      /\ UNCHANGED loader
                 ELSE IF svCaseInsensitiveCompare(sv, << "h" >>)
                 THEN /\ dataPrompt' = RetryWith(read, "")
                      /\ UNCHANGED loader
                 ELSE /\ dataPrompt' = [read EXCEPT !.pc = "loadBondReturnCSV"]
                      /\ \E f \in CSVFiles :
                           loader' = [pc |-> "open", csv |-> f, currentRowNum |-> 0,
                                      numMonths |-> 0, tenorsUnsorted |-> << >>,
                                      gridUnsorted |-> << >>, tenorsSeen |-> {}]
    /\ UNCHANGED << tenorList, numMonths, grid >>
    /\ UNCHANGED notData

\* confirmQuit: end of input or an empty line confirms.
ConfirmQuitData ==
    /\ dataPrompt # None
    /\ dataPrompt.pc = "confirmQuit"
    /\ IF dataPrompt.linesLeft = 0
       THEN dataPrompt' = EscapeFrom([dataPrompt EXCEPT !.eof = TRUE])
       ELSE \E input \in ConfirmLines :
              LET read == [dataPrompt EXCEPT !.linesLeft = dataPrompt.linesLeft - 1,
                                             !.input = Append(dataPrompt.input, input)]
              IN dataPrompt' = IF input = << >> THEN EscapeFrom(read)
                                             ELSE RetryWith(read, "")
    /\ UNCHANGED << loader, tenorList, numMonths, grid >>
    /\ UNCHANGED notData

\* loadBondReturnCSV returns to the transformer, with the matrix or with an
\* exception, of which the transformer catches CSVError only.
LoaderReturns ==
    /\ dataPrompt # None
    /\ dataPrompt.pc = "loadBondReturnCSV"
    /\ loader.pc \in { "loaded", "csv_error", "invalid_argument", "undefined" }
    /\ IF loader.pc = "loaded"
       THEN /\ dataPrompt' = [dataPrompt EXCEPT !.pc = "done", !.result = "value"]
            /\ UNCHANGED loader
       ELSE IF loader.pc = "csv_error"
       THEN /\ dataPrompt' = OnCSVError(dataPrompt)
            /\ loader' = None
       ELSE /\ dataPrompt' = [dataPrompt EXCEPT !.pc = "done", !.result = loader.pc]
            /\ UNCHANGED loader
    /\ UNCHANGED << tenorList, numMonths, grid >>
    /\ UNCHANGED notData

\* The steps of the loader are steps of the call made by the transformer.
NextData ==
    \/ PromptForData
    \/ ConfirmQuitData
    \/ dataPrompt # None /\ OpenCSV
    \/ dataPrompt # None /\ LoadRow
    \/ dataPrompt # None /\ EndOfRows
    \/ dataPrompt # None /\ SortData
    \/ LoaderReturns

SpecData == InitData /\ [][NextData]_vars /\ WF_vars(NextData)

\* ------------------------------------------------- formatter<InvestmentAction>
\* The short form of a sequence of actions, as formatCSVRow and printResults
\* write it: joinFormatted(decisions, ",") with the formatter of
\* InvestmentAction.

\* Months of the matrix whose results are written.
MaxRenderMonths == 11

\* The tenors of the matrix whose results are written, of one and of two
\* digits.
RenderTenors == { 2, 10 }

\* The sequences of unit waits (0) and purchases that end at month m: the
\* chains of decisions the engine can rank.
RECURSIVE RenderSteps(_)
RenderSteps(m) ==
    IF m = 0 THEN { << >> }
    ELSE { Append(steps, 0) : steps \in RenderSteps(m - 1) } \cup
         UNION { { Append(steps, t) : steps \in RenderSteps(m - t) } :
                   t \in { u \in RenderTenors : u <= m } }

RECURSIVE MonthsOf(_)
MonthsOf(steps) ==
    IF steps = << >> THEN 0
    ELSE (IF Head(steps) = 0 THEN 1 ELSE Head(steps)) + MonthsOf(Tail(steps))

\* The decisions table that holds the chain of steps at rank 0: the step that
\* reaches a month, with the previous rank 0.
DecisionsOf(steps) ==
    [m \in 1 .. MonthsOf(steps) |->
        [r \in { 0 } |->
            [tenor |-> IF \E n \in 1 .. Len(steps) : MonthsOf(SubSeq(steps, 1, n)) = m
                       THEN steps[CHOOSE n \in 1 .. Len(steps) :
                                     MonthsOf(SubSeq(steps, 1, n)) = m]
                       ELSE -1,
             prevRank |-> 0]]]

\* The path reconstructPaths returns for the chain of steps.
ReconstructedPath(steps) ==
    Reverse(Walk(DecisionsOf(steps), MonthsOf(steps), 0, 0, << >>).path)

\* The paths of the results handed to formatCSVRow.
ResultPaths ==
    { ReconstructedPath(steps) :
        steps \in UNION { RenderSteps(m) : m \in 1 .. MaxRenderMonths } }

\* std::format("{}", n) of a positive int: its decimal digits.
RECURSIVE Decimal(_)
Decimal(n) ==
    IF n < 10 THEN << Digits[n + 1] >>
    ELSE Append(Decimal(n \div 10), Digits[(n % 10) + 1])

\* formatter<InvestmentAction>::format without the verbose option.
format(choice) ==
    IF choice.action = "Buy"
    THEN << "b" >> \o Decimal(choice.length)
    ELSE << "w" >> \o Decimal(choice.length)

\* Helpers::Strings::joinFormatted(range, delimiter)
RECURSIVE joinFormatted(_, _)
joinFormatted(range, delimiter) ==
    IF range = << >> THEN << >>
    ELSE IF Len(range) = 1 THEN format(range[1])
    ELSE joinFormatted(SubSeq(range, 1, Len(range) - 1), delimiter)
            \o delimiter \o format(range[Len(range)])

InitRender ==
    /\ \E decisions_ \in ResultPaths :
         rendering = [pc |-> "format", decisions |-> decisions_, text |-> << >>]
    /\ tenorList = << >>
    /\ numMonths = 0
    /\ grid = << >>
    /\ numResultsRequested = 0
    /\ pc = "none"
    /\ CRFs = << >>
    /\ decisions = << >>
    /\ rowIndex = << >>
    /\ windowCounter = 0
    /\ currentMonth = 0
    /\ candidatePQ = {}
    /\ numResults = 0
    /\ numResultsFound = 0
    /\ results = None
    /\ scalar = None
    /\ prior = None
    /\ construction = None
    /\ counter = None
    /\ loader = None
    /\ exporter = None
    /\ prompt = None
    /\ dataPrompt = None
    /\ recursive = None

\* Everything but the sequence and its text.
notRender == << tenorList, numMonths, grid, numResultsRequested, pc, CRFs, decisions,
                rowIndex, windowCounter, currentMonth, candidatePQ, numResults,
                numResultsFound, results, scalar, prior, construction, counter,
                loader, exporter, prompt, dataPrompt, recursive >>

\* The action list of formatCSVRow.
FormatCSVRow ==
    /\ rendering # None
    /\ rendering.pc = "format"
    /\ rendering' = [rendering EXCEPT !.pc = "formatted",
                                      !.text = joinFormatted(rendering.decisions, << "," >>)]
    /\ UNCHANGED notRender

NextRender == FormatCSVRow

SpecRender == InitRender /\ [][NextRender]_vars

\* ------------------------------------------------------------- topBotCRFs
\* The recursive optimiser without waits: a depth-first search over the
\* purchases from month 0, with the lists of the top and the bottom results.
\* The frames of recurseCRFs are kept as a stack; a frame holds the arguments
\* currentMonth and currentCRF and the loop variable i.

CRFAndChoices(crf, choices) == [CRF |-> crf, tenorChoices |-> choices]

\* ExtremeList::listDefault
listDefault(kind) == IF kind = "Top" THEN NegInf ELSE PosInf

\* ExtremeList::ExtremeList: numEntries defaults.
ExtremeList(kind, numEntries) ==
    [j \in 1 .. numEntries |-> CRFAndChoices(listDefault(kind), << >>)]

\* The predicate of find_if in compareAndInsert.
beats(kind, candidateCRF, e) ==
    IF kind = "Top" THEN Gt(candidateCRF, e.CRF) ELSE Gt(e.CRF, candidateCRF)

\* std::rotate(it, end - 1, end) and the assignment to *it, with it at the
\* position pos of the list (from 1).
insertAt(elemList, pos, elem) ==
    [j \in 1 .. Len(elemList) |->
        IF j < pos THEN elemList[j] ELSE IF j = pos THEN elem ELSE elemList[j - 1]]

\* Detail::compareAndInsert
compareAndInsert(elemList, kind, candidateCRF, candidatePath) ==
    LET found == { j \in 1 .. Len(elemList) : beats(kind, candidateCRF, elemList[j]) }
    IN IF found = {} THEN elemList
       ELSE insertAt(elemList, CHOOSE j \in found : \A other \in found : j <= other,
                     CRFAndChoices(candidateCRF, candidatePath))

\* What main hands to topBotCRFs: a matrix of the constructor, which asks for
\* one month at least, and the two numbers requested.
InitRecursive ==
    /\ tenorList \in TenorLists
    /\ numMonths \in 1 .. MaxMonths
    /\ grid \in Grids(tenorList, numMonths)
    /\ \E numTopChoices \in -1 .. MaxK, numBotChoices \in -1 .. MaxK :
         recursive = [pc |-> "call", numTopChoices |-> numTopChoices,
                      numBotChoices |-> numBotChoices, topChoices |-> << >>,
                      botChoices |-> << >>, numSolutions |-> 0, frames |-> << >>,
                      currentPath |-> << >>]
    /\ numResultsRequested = 0
    /\ pc = "none"
    /\ CRFs = << >>
    /\ decisions = << >>
    /\ rowIndex = << >>
    /\ windowCounter = 0
    /\ currentMonth = 0
    /\ candidatePQ = {}
    /\ numResults = 0
    /\ numResultsFound = 0
    /\ results = None
    /\ scalar = None
    /\ prior = None
    /\ construction = None
    /\ counter = None
    /\ loader = None
    /\ exporter = None
    /\ prompt = None
    /\ dataPrompt = None
    /\ rendering = None

\* Everything but the call of topBotCRFs.
notRecursive == << tenorList, numMonths, grid, numResultsRequested, pc, CRFs, decisions,
                   rowIndex, windowCounter, currentMonth, candidatePQ, numResults,
                   numResultsFound, results, scalar, prior, construction, counter,
                   loader, exporter, prompt, dataPrompt, rendering >>

\* topBotCRFs up to its call of recurseCRFs.
CallTopBotCRFs ==
    /\ recursive # None
    /\ recursive.pc = "call"
    /\ IF recursive.numTopChoices < 0 \/ recursive.numBotChoices < 0
       THEN recursive' = [recursive EXCEPT !.pc = "invalid_argument"]
       ELSE recursive' = [recursive EXCEPT
                !.pc = "recurseCRFs",
                !.topChoices = ExtremeList("Top", recursive.numTopChoices),
                !.botChoices = ExtremeList("Bottom", recursive.numBotChoices),
                !.frames = << [currentMonth |-> 0, currentCRF |-> 1, i |-> 0] >>]
    /\ UNCHANGED notRecursive

\* The frame of the innermost call of recurseCRFs.
Frame == recursive.frames[Len(recursive.frames)]
shortestTenor == tenorList[1]
newMonth == Frame.currentMonth + tenorAt(Frame.i)
newCRF == Mul(Frame.currentCRF, ReturnFactor(Frame.i, Frame.currentMonth))

\* The loop of the innermost call goes on with the tenor i.
InLoop ==
    /\ recursive # None
    /\ recursive.pc = "recurseCRFs"
    /\ Frame.i < numTenors
    /\ ~(newMonth > numMonths)

\* The frames with the loop variable of the innermost one advanced.
NextTenor(frames) == [frames EXCEPT ![Len(frames)].i = frames[Len(frames)].i + 1]

\* The sequence cannot go further: it is counted and offered to both lists.
Leaf ==
    /\ InLoop
    /\ newMonth + shortestTenor > numMonths
    /\ LET path == Append(recursive.currentPath, tenorAt(Frame.i))
       IN recursive' = [recursive EXCEPT
              !.numSolutions = recursive.numSolutions + 1,
              !.topChoices = compareAndInsert(recursive.topChoices, "Top", newCRF, path),
              !.botChoices = compareAndInsert(recursive.botChoices, "Bottom", newCRF, path),
              !.frames = NextTenor(recursive.frames)]
    /\ UNCHANGED notRecursive

\* The sequence can go further: the recursive call.
Recurse ==
    /\ InLoop
    /\ ~(newMonth + shortestTenor > numMonths)
    /\ recursive' = [recursive EXCEPT
           !.currentPath = Append(recursive.currentPath, tenorAt(Frame.i)),
           !.frames = Append(recursive.frames,
                             [currentMonth |-> newMonth, currentCRF |-> newCRF, i |-> 0])]
    /\ UNCHANGED notRecursive

\* The loop of the innermost call ends: the caller removes the tenor from the
\* path and goes on, or topBotCRFs returns.
ReturnFromRecurse ==
    /\ recursive # None
    /\ recursive.pc = "recurseCRFs"
    /\ IF Frame.i < numTenors THEN newMonth > numMonths ELSE TRUE
    /\ IF Len(recursive.frames) = 1
       THEN recursive' = [recursive EXCEPT !.pc = "done", !.frames = << >>]
       ELSE recursive' = [recursive EXCEPT
                !.currentPath = SubSeq(recursive.currentPath, 1,
                                       Len(recursive.currentPath) - 1),
                !.frames = NextTenor(SubSeq(recursive.frames, 1,
                                            Len(recursive.frames) - 1))]
    /\ UNCHANGED notRecursive

NextRecursive ==
    \/ CallTopBotCRFs
    \/ Leaf
    \/ Recurse
    \/ ReturnFromRecurse

SpecRecursive == InitRecursive /\ [][NextRecursive]_vars

\* ================================================================= claims
\* The call returned an OptimalResults for k >= 1.
Returned == pc = "done" /\ results.kind = "ok" /\ numResultsRequested >= 1

\* Every feasible action sequence ending at month m, as its steps in
\* chronological order: 0 is a unit wait, t > 0 a buy of tenor t.
RECURSIVE SequencesTo(_)
SequencesTo(m) ==
    IF m = 0 THEN { << >> }
    ELSE { Append(s, 0) : s \in SequencesTo(m - 1) } \cup
         UNION { { Append(s, tenorAt(i)) : s \in SequencesTo(m - tenorAt(i)) } :
                   i \in HeadRows(m) }

RowOf(t) == CHOOSE i \in 0 .. (numTenors - 1) : tenorAt(i) = t

\* The exact CRF of a sequence of steps that starts at the given month.
RECURSIVE StepsCRF(_, _)
StepsCRF(steps, month) ==
    IF steps = << >> THEN 1
    ELSE IF Head(steps) = 0 THEN StepsCRF(Tail(steps), month + 1)
    ELSE (1 + tenorData(RowOf(Head(steps)), month)) *
         StepsCRF(Tail(steps), month + Head(steps))

\* The n largest CRFs of a set of sequences, as a multiset, in descending order.
RECURSIVE LargestCRFs(_, _)
LargestCRFs(S, n) ==
    IF n = 0 \/ S = {} THEN << >>
    ELSE LET best == CHOOSE s \in S :
                       \A u \in S : StepsCRF(u, 0) <= StepsCRF(s, 0)
         IN << StepsCRF(best, 0) >> \o LargestCRFs(S \ { best }, n - 1)

NonIncreasing(s) == \A i \in 1 .. (Len(s) - 1) : s[i] >= s[i + 1]

\* C1: a call that returns for k >= 1 returns as crfs exactly the
\* min(k, number of feasible sequences) largest CRFs over all feasible sequences
\* of unit waits and buys ending at month numMonths, in descending order.
C1_TopKOfAllSequences ==
    Returned =>
        results.CRFs = LargestCRFs(SequencesTo(numMonths), numResultsRequested)

\* The months whose update is complete, with the number of ranks found there,
\* for the rows the state still identifies: the month just finished.
UpdatedMonth ==
    IF pc = "heads" THEN currentMonth - 1
    ELSE IF pc \in { "reconstruct", "done" } THEN numMonths
    ELSE -1
resultsAt(m) == IF m = 0 THEN 1 ELSE numResultsFound

\* A row is non-increasing, filled on ranks 0 .. found-1 and -inf after them.
RowInOrder(row, found) ==
    /\ \A r \in Ranks : (r < found) = (row[r] # NegInf)
    /\ \A r \in Ranks : r + 1 \in Ranks => row[r] >= row[r + 1]

\* C2: after the update of a month its CRF row is non-increasing in rank and its
\* -inf entries form a suffix after the filled ranks; the returned crfs are
\* non-increasing.
C2_RowsNonIncreasing ==
    /\ (numResultsRequested >= 1 /\ UpdatedMonth >= 0 /\ CRFs # << >>)
          => RowInOrder(CRFs[rowIndex[UpdatedMonth]], resultsAt(UpdatedMonth))
    /\ Returned => NonIncreasing(results.CRFs)

\* The value of a returned path when its actions are evaluated against the
\* Return Matrix by their own start months: the product of 1 + R(row, start_month)
\* over its Buys.  A Buy whose start month has no column in the grid has no value.
BuysOf(path) == { i \in 1 .. Len(path) : path[i].action = "Buy" }
RECURSIVE ProductOver(_, _)
ProductOver(path, idx) ==
    IF idx = {} THEN 1
    ELSE LET i == CHOOSE j \in idx : TRUE
         IN (1 + tenorData(RowOf(path[i].length), path[i].startMonth)) *
            ProductOver(path, idx \ { i })
EvaluatesTo(path, crf) ==
    /\ \A i \in BuysOf(path) : path[i].startMonth \in 0 .. (numMonths - 1)
    /\ ProductOver(path, BuysOf(path)) = crf

\* C3: for every returned rank r, multiplying 1 + R(row_of(tenor), start_month)
\* over the Buys of paths[r] yields exactly crfs[r].
C3_PathEvaluatesToCRF ==
    Returned =>
        \A r \in 1 .. Len(results.decisions) :
            EvaluatesTo(results.decisions[r], results.CRFs[r])

\* The actions of a path tile [0, numMonths] in chronological order.
Tiles(path) ==
    /\ path # << >>
    /\ path[1].startMonth = 0
    /\ \A i \in 1 .. (Len(path) - 1) :
         path[i + 1].startMonth = path[i].startMonth + path[i].length
    /\ path[Len(path)].startMonth + path[Len(path)].length = numMonths

\* C4: every returned path tiles the horizon: the first action starts at month
\* 0, each later action starts where the previous one ends, the last ends at
\* month numMonths.
C4_PathsTileHorizon ==
    Returned => \A r \in 1 .. Len(results.decisions) : Tiles(results.decisions[r])

\* The back-pointer chain of rank r of month m in chronological order: one
\* entry per decision, 0 for a unit wait and t > 0 for a buy of tenor t.
RECURSIVE Chain(_, _)
Chain(m, r) ==
    IF m <= 0 THEN << >>
    ELSE LET d == decisions[m][r]
         IN Append(Chain(m - (IF d.tenor > 0 THEN d.tenor ELSE 1), d.prevRank),
                   d.tenor)

\* A chain with every maximal run of j unit waits replaced by one Wait of
\* length j, as [action, length] pairs.
RECURSIVE Merged(_, _)
Merged(steps, streak) ==
    IF steps = << >>
    THEN IF streak > 0 THEN << [action |-> "Wait", length |-> streak] >> ELSE << >>
    ELSE IF Head(steps) = 0 THEN Merged(Tail(steps), streak + 1)
    ELSE (IF streak > 0 THEN << [action |-> "Wait", length |-> streak] >> ELSE << >>)
         \o << [action |-> "Buy", length |-> Head(steps)] >>
         \o Merged(Tail(steps), 0)

KindAndLength(path) ==
    [i \in 1 .. Len(path) |-> [action |-> path[i].action, length |-> path[i].length]]

\* C5: in every returned path the start months are non-decreasing, no two
\* consecutive actions are both Wait, and the path is the back-pointer chain of
\* its rank with every maximal run of j unit waits emitted as one Wait of length j.
C5_WaitsMergedInOrder ==
    Returned =>
        \A r \in 1 .. Len(results.decisions) :
            LET path == results.decisions[r]
            IN /\ \A i \in 1 .. (Len(path) - 1) :
                    /\ path[i].startMonth <= path[i + 1].startMonth
                    /\ ~(path[i].action = "Wait" /\ path[i + 1].action = "Wait")
               /\ KindAndLength(path) = Merged(Chain(numMonths, r - 1), 0)

C5_Witness ==
    /\ Returned
    /\ \E r \in 1 .. Len(results.decisions) :
         LET path == results.decisions[r]
         IN \E i \in 1 .. (Len(path) - 1) :
              /\ path[i].action = "Buy"
              /\ path[i + 1].action = "Wait"
              /\ path[i + 1].length >= 2

\* The CRF of a path replayed from month 0: each action begins where the
\* previous one ended, a Buy multiplies by its return factor.
RECURSIVE ReplayCRF(_, _)
ReplayCRF(path, month) ==
    IF path = << >> THEN 1
    ELSE IF Head(path).action = "Wait"
    THEN ReplayCRF(Tail(path), month + Head(path).length)
    ELSE (1 + tenorData(RowOf(Head(path).length), month)) *
         ReplayCRF(Tail(path), month + Head(path).length)

\* C6: a call that returns gives as many paths as crfs, at most k of each, and
\* paths[r] is the action sequence whose CRF is crfs[r].
C6_ResultsAligned ==
    Returned =>
        /\ Len(results.CRFs) = Len(results.decisions)
        /\ Len(results.CRFs) <= numResultsRequested
        /\ \A r \in 1 .. Len(results.CRFs) :
             /\ results.CRFs[r] # NegInf
             /\ ReplayCRF(results.decisions[r], 0) = results.CRFs[r]

C6_Witness ==
    /\ Returned
    /\ Len(results.CRFs) >= 3
    /\ results.CRFs[1] # results.CRFs[2]
    /\ results.CRFs[2] # results.CRFs[3]
    /\ numMonths > maxTenor

\* C7: crfs[0] of a call that returns equals the optimum the scalar DP
\* optimiseCRF computes for the same matrix.
C7_BestEqualsScalarDP ==
    (Returned /\ scalar # None) =>
        /\ results.CRFs[1] = ScalarTables.CRF[numMonths]
        /\ scalar.kind = "ok" => results.CRFs[1] = scalar.CRF

C7_Witness ==
    /\ Returned
    /\ numResultsRequested >= 2
    /\ scalar # None
    /\ scalar.kind = "ok"
    /\ scalar.CRF > 1
    /\ Len(scalar.choices) >= 2

\* C8: on the same matrix the call with k = 1 and the call with k = K return
\* the same crfs[0].
C8_BestIndependentOfK ==
    (Returned /\ prior # None /\ prior.kind = "ok") =>
        /\ numResultsRequested = 1
        /\ results.CRFs[1] = prior.CRFs[1]

C8_Witness ==
    /\ Returned
    /\ prior # None
    /\ prior.kind = "ok"
    /\ prior.k >= 2
    /\ Len(prior.CRFs) >= 2
    /\ results.CRFs[1] > 1

\* C9: for k = 1, a single tenor and numMonths = tenors[0] the call returns
\* crfs = [1 + R(0,0)] and paths = [[Buy{start_month 0, tenor tenors[0]}]].
C9_SingleBuy ==
    (Returned /\ numResultsRequested = 1 /\ numTenors = 1 /\ numMonths = tenorAt(0)) =>
        /\ results.CRFs = << 1 + tenorData(0, 0) >>
        /\ results.decisions = << << InvestmentAction("Buy", 0, tenorAt(0)) >> >>

Finite(x) == x # PosInf /\ x # NegInf /\ x # NaN
Abs(x) == IF x < 0 THEN -x ELSE x

\* The row of the window that holds month p: phase(p) = p mod (L + 1).
phase(p) == p % window

\* The overflow error for an exact product beyond the finite range.
OverflowOf(exact, month) ==
    [kind |-> "overflow",
     direction |-> IF exact >= 0 THEN "above" ELSE "below",
     month |-> month]

\* The exact product the head of tenor row i is computed from.
ExactHead(i) ==
    CRFs[phase(currentMonth - tenorAt(i))][0] *
        (1 + tenorData(i, currentMonth - tenorAt(i)))

\* A step that computes the heads of a month: it fails with the overflow of the
\* first head beyond the finite range, and goes on to the extraction otherwise.
HeadsStep ==
    pc = "heads" =>
        LET bad == { i \in HeadRows(currentMonth) : Abs(ExactHead(i)) > MaxFinite }
        IN IF bad = {}
           THEN pc' = "extract" /\ results' = results
           ELSE /\ pc' = "failed"
                /\ results' = OverflowOf(ExactHead(CHOOSE i \in bad : \A j \in bad : i <= j),
                                         currentMonth)

\* A step that pops a candidate into rank numResults and advances its list: it
\* fails when the successor is computed beyond the finite range.
AdvanceStep ==
    (pc = "extract" /\ numResults' = numResults + 1) =>
        LET d == decisions'[currentMonth][numResults]
            prevMonth == currentMonth - (IF d.tenor > 0 THEN d.tenor ELSE 1)
            factor == IF d.tenor > 0 THEN 1 + tenorData(RowOf(d.tenor), prevMonth) ELSE 1
            advanced == /\ d.prevRank + 1 < numResultsRequested
                        /\ CRFs[phase(prevMonth)][d.prevRank + 1] # NegInf
            exact == CRFs[phase(prevMonth)][d.prevRank + 1] * factor
        IN IF advanced /\ Abs(exact) > MaxFinite
           THEN pc' = "failed" /\ results' = OverflowOf(exact, currentMonth)
           ELSE pc' = "extract" /\ results' = results

\* A failed call does not go on: nothing is returned for it.
FailedStep ==
    pc = "failed" =>
        \/ pc' = "failed" /\ results' = results
        \/ pc' = "call" /\ results' = None

\* No entry of a filled rank of the window, and no candidate of the heap, is
\* non-finite; an overflow error carries the month at which the call stopped.
NothingNonFiniteKept ==
    /\ \A c \in candidatePQ : Finite(c.CRF)
    /\ CRFs # << >> =>
         \A p \in 0 .. numMonths : \A r \in Ranks :
             (/\ decisions[p][r].tenor # -1
              /\ p <= currentMonth
              /\ p > currentMonth - window) => Finite(CRFs[phase(p)][r])
    /\ results.kind = "overflow" => pc = "failed" /\ results.month = currentMonth
    /\ pc = "failed" => results.kind \in { "overflow", "invalid_argument" }

\* C10: whenever a candidate CRF (a list head or an advanced-list successor) is
\* computed non-finite the call fails with Overflow, direction 'above' for
\* a non-negative value and 'below' otherwise, at the month of that candidate,
\* which is the first such month; no non-finite candidate is written into the
\* CRF buffer, and a failed call returns no results.
C10_OverflowFailsCall ==
    /\ []NothingNonFiniteKept
    /\ [][HeadsStep]_vars
    /\ [][AdvanceStep]_vars
    /\ [][FailedStep]_vars

C10_Witness ==
    /\ pc = "failed"
    /\ results.kind = "overflow"
    /\ results.direction = "below"
    /\ numResults >= 1
    /\ decisions[currentMonth][0].tenor # -1

\* The months whose rank-0 CRF the update of month m reads for its heads:
\* m - 1 for the waiting head, m - t for the head of every tenor t <= m.
Predecessors(m) == { m - 1 } \cup { m - tenorAt(i) : i \in HeadRows(m) }

\* The number of ranks found at the month whose update has just ended.
FoundAtUpdatedMonth ==
    IF UpdatedMonth >= 1 /\ numResultsRequested >= 1 THEN numResultsFound ELSE 1

\* C11: every month has at least one result and its rank 0 is filled: when the
\* update of a month starts, the row of every predecessor month is still in the
\* window (it is not the row about to be reset) and its rank 0 is not -inf, so
\* no head is built from the -inf sentinel and no candidate carries it.
C11_RankZeroFilled ==
    /\ FoundAtUpdatedMonth >= 1
    /\ (pc = "extract" /\ numResults >= 1) =>
          decisions[currentMonth][0].tenor # -1
    /\ pc = "heads" =>
          \A p \in Predecessors(currentMonth) :
              /\ p = 0 \/ decisions[p][0].tenor # -1
              /\ rowIndex[p] # windowCounter
              /\ CRFs[rowIndex[p]][0] # NegInf
    /\ pc \in { "reconstruct", "done" } /\ numResultsRequested >= 1 =>
          \A p \in 0 .. numMonths : decisions[p][0].tenor # -1
    /\ \A c \in candidatePQ : c.prevRank = 0 => c.CRF # NegInf

C11_Witness ==
    /\ pc = "heads"
    /\ currentMonth > maxTenor
    /\ numTenors >= 2
    /\ numResultsRequested >= 2

\* C12: the paths one call returns are pairwise distinct action sequences, also
\* where their CRFs are equal: every sequence has its own rank and none is
\* emitted twice.
C12_PathsPairwiseDistinct ==
    Returned =>
        \A r1, r2 \in 1 .. Len(results.decisions) :
            r1 # r2 =>
                /\ results.decisions[r1] # results.decisions[r2]
                /\ Chain(numMonths, r1 - 1) # Chain(numMonths, r2 - 1)

C12_Witness ==
    /\ Returned
    /\ Len(results.decisions) >= 3
    /\ \E r1, r2 \in 1 .. Len(results.CRFs) :
         /\ r1 # r2
         /\ results.CRFs[r1] = results.CRFs[r2]
         /\ Len(results.decisions[r1]) # Len(results.decisions[r2])

\* The call of getOptimalSequences has run its argument checks.
Called == pc \notin { "none", "call" }

\* C13: with k >= 0, a call with k = 0, or on a matrix of zero tenors or of zero
\* months, returns empty crfs and empty paths and no error.
C13_EmptyResults ==
    (/\ Called
     /\ numResultsRequested >= 0
     /\ (numResultsRequested = 0 \/ numTenors = 0 \/ numMonths = 0)) =>
        /\ pc = "done"
        /\ results.kind = "ok"
        /\ results.CRFs = << >>
        /\ results.decisions = << >>

C13_Witness ==
    /\ pc = "done"
    /\ construction.outcome = "constructed"
    /\ numTenors = 0
    /\ numMonths >= 1
    /\ numResultsRequested >= 1
    /\ results = [kind |-> "ok", CRFs |-> << >>, decisions |-> << >>]

\* C14: a call with a negative k fails with an invalid-argument error on every
\* matrix, also on one the empty-result guard would answer, and returns nothing.
C14_NegativeKRejected ==
    (Called /\ numResultsRequested < 0) =>
        /\ pc = "failed"
        /\ results = [kind |-> "invalid_argument"]
        /\ CRFs = << >>

C14_Witness ==
    /\ pc = "failed"
    /\ construction.outcome = "constructed"
    /\ numResultsRequested < 0
    /\ numTenors = 0
    /\ results.kind = "invalid_argument"

StrictlyAscending(t) == \A i \in 1 .. (Len(t) - 1) : t[i] < t[i + 1]

\* The arguments a Return Matrix may be constructed from.
ValidArguments(t, m, g) ==
    /\ Len(g) = Len(t) * m
    /\ m >= 1
    /\ Len(t) >= 1
    /\ StrictlyAscending(t)
    /\ m >= t[1]

\* C17: the constructor fails, and yields no object, on a shape mismatch, on
\* zero months or zero tenors, on fewer months than the shortest tenor and on
\* tenors that are not strictly ascending; so every constructed matrix has
\* len(grid) = n*M, n >= 1, strictly ascending tenors and M >= tenors[0].
C17_ConstructorValidates ==
    /\ (construction.outcome = "constructed") =>
          ValidArguments(construction.t, construction.m, construction.g)
    /\ (construction.outcome \in { "constructed", "invalid_argument" }
          /\ ~ValidArguments(construction.t, construction.m, construction.g)) =>
          /\ construction.outcome = "invalid_argument"
          /\ tenorList = << >>
          /\ grid = << >>

\* ------------------------------------------------------------ path counts
\* The sum of P[m - t] over the steps t <= m of a list of steps, for a table P
\* over the months.
RECURSIVE SumOfSteps(_, _, _, _)
SumOfSteps(steps, n, P, m) ==
    IF n = 0 THEN Zero
    ELSE BigAdd(SumOfSteps(steps, n - 1, P, m),
                IF steps[n] <= m THEN P[m - steps[n]] ELSE Zero)

\* P is the table of path counts of the steps up to month M: P[0] = 1 and, for
\* m >= 1, P[m] is the sum of P[m - t] over the steps t <= m.
IsPathCount(steps, P, M) ==
    /\ P[0] = One
    /\ \A m \in 1 .. M : P[m] = SumOfSteps(steps, Len(steps), P, m)

\* The steps as the set tenors \cup {1}, and as the unit wait beside every tenor.
StepsAsSet(tl) == IF \E n \in 1 .. Len(tl) : tl[n] = 1 THEN tl ELSE << 1 >> \o tl
WaitAndTenors(tl) == << 1 >> \o tl

FitsLongLong(a) == ~BigLess(LLMax, a)
CountReturned == counter # None /\ counter.pc = "returned"

PendingSum ==
    BigAdd(counter.numPaths[counter.i],
           counter.numPaths[counter.i - counter.tenorList[counter.t]])

\* An addition of the integer DP is made exactly when its sum fits a long long;
\* otherwise the counter is promoted.  After the promotion the integer table is
\* left alone and the counter stays promoted.
CountStep ==
    (counter # None /\ counter.pc = "loop" /\ counter'.t = counter.t + 1) =>
        IF counter.overflowed
        THEN counter'.overflowed /\ counter'.numPaths = counter.numPaths
        ELSE IF FitsLongLong(PendingSum)
        THEN /\ ~counter'.overflowed
             /\ counter'.numPaths = [counter.numPaths EXCEPT ![counter.i] = PendingSum]
        ELSE /\ counter'.overflowed
             /\ counter'.numPaths = counter.numPaths
StaysPromoted ==
    (counter # None /\ counter.overflowed) =>
        counter'.overflowed /\ counter'.numPaths = counter.numPaths

\* No entry of the integer table is beyond a long long; Exact is returned
\* without promotion, with the count of the last month, and Approx with it.
NeverWrapped ==
    (counter # None /\ counter.pc # "call") =>
        /\ \A m \in 0 .. counter.numMonths : FitsLongLong(counter.numPaths[m])
        /\ counter.pc = "returned" =>
              IF counter.overflowed
              THEN counter.result.kind = "Approx"
              ELSE /\ counter.result = ExactCount(counter.numPaths[counter.numMonths])
                   /\ IsPathCount(counter.tenorList, counter.numPaths,
                                  counter.numMonths)

\* The kind of count returned for a tenor list and a horizon.
ReturnsFor(tl, M, kind) ==
    (CountReturned /\ counter.tenors = tl /\ counter.numMonths = M) =>
        counter.result.kind = kind

Loaded == loader # None /\ loader.pc = "loaded"
\* The positions of the data rows (the lines that are not blank) of the file.
DataRows == { p \in 1 .. Len(loader.csv.rows) : loader.csv.rows[p] # Blank }

\* C18: for every accepted CSV, whatever the order of its data rows, the loaded
\* matrix has strictly ascending tenors, one per data row (so no duplicates), the
\* months of the header with M >= min(tenors), and R(row_of(t), m) is the value of
\* column m in the CSV row labelled t.
C18_RowsSortedInLockStep ==
    Loaded =>
        /\ StrictlyAscending(tenorList)
        /\ numTenors = Cardinality(DataRows)
        /\ numMonths = loader.csv.months
        /\ numMonths >= tenorList[1]
        /\ \A p \in DataRows :
             /\ \E i \in 0 .. (numTenors - 1) : tenorAt(i) = loader.csv.rows[p].tenor
             /\ \A m \in 0 .. (numMonths - 1) :
                  tenorData(RowOf(loader.csv.rows[p].tenor), m) = CellValue(p, m)

C18_Witness ==
    /\ Loaded
    /\ numMonths = 2
    /\ Len(loader.csv.rows) = 3
    /\ loader.csv.rows[1].tenor = 2
    /\ loader.csv.rows[2].tenor = 3
    /\ loader.csv.rows[3].tenor = 1

NumCandidates == Cardinality(Candidates)

\* The place of a candidate in the order bond_results.csv, bond_results_2.csv,
\* ..., bond_results_10000.csv.
ComesBefore(a, b) == a.number < b.number

ReturnedValue == prompt # None /\ prompt.pc = "returned" /\ prompt.result.kind = "value"

\* A returned number is at least 1, and one above 1,000,000 was confirmed with
\* "y" at the warning.
ReturnedValueAllowed ==
    ReturnedValue =>
        /\ prompt.result.value >= 1
        /\ prompt.result.value > 1000000 =>
              prompt.printFallbackPromptResult = Value(TRUE)
        /\ prompt.result.value <= 1000000 => prompt.printFallbackPromptResult = None

\* The line just read from standard input, << "end" >> for the end of the
\* input.
EndOfInput == << "end" >>
LineRead ==
    IF Len(prompt'.consumed) > Len(prompt.consumed)
    THEN prompt'.consumed[Len(prompt'.consumed)]
    ELSE EndOfInput

\* The number entered is above 1,000,000: the warning is shown before anything
\* is returned.
WarnsAboveThreshold ==
    (/\ prompt # None
     /\ prompt.pc = "number"
     /\ LineRead \in { << "1", "0", "0", "0", "0", "0", "1" >> }) => prompt'.pc = "warning"

\* At the warning only "y" or "Y" returns; declining (the empty line, or the
\* end of the input) goes back to the number prompt.
DeclineGoesBack ==
    (prompt # None /\ prompt.pc = "warning") =>
        IF LineRead \in { EndOfInput, << >> }
        THEN prompt'.pc = "number" /\ prompt'.result = None
        ELSE IF LineRead \in { << "y" >>, << "Y" >> }
        THEN prompt'.pc = "returned" /\ prompt'.result = prompt.numResultsPromptResult
        ELSE prompt'.pc = "warning"

\* C20: getNumResultsPrompt returns a value k only if k >= 1; a k above
\* 1,000,000 is returned only after the warning was confirmed with 'y';
\* declining the warning leads back to the number prompt, not to quitting; and
\* for every input the prompt ends in a value or an escape.
C20_PromptEndsInValueOrEscape ==
    /\ []ReturnedValueAllowed
    /\ [][WarnsAboveThreshold]_vars
    /\ [][DeclineGoesBack]_vars
    /\ <>(prompt # None /\ prompt.pc = "returned" /\ prompt.result.kind \in { "value", "escape" })

C20_Witness ==
    /\ ReturnedValue
    /\ prompt.result.value = 7
    /\ prompt.consumed = << << "1", "0", "0", "0", "0", "0", "1" >>, << >>, << "7" >> >>

\* ---------------------------------------------------------- rolling window
\* The full table of (numMonths + 1) rows, rebuilt from the back-pointers: the
\* entry of month p, rank r is the product along its chain, -inf when unfilled.
FullTable(p, r) ==
    IF decisions[p][r].tenor = -1 THEN NegInf ELSE StepsCRF(Chain(p, r), 0)

\* The months the update of month m reads while it extracts: its predecessors.
Running == pc \in { "heads", "extract" } /\ numResultsRequested >= 1

\* A step of the update of a month writes the row of that month only.
WritesOwnRowOnly ==
    (Running /\ pc' \in { "heads", "extract", "failed", "reconstruct" }) =>
        \A row \in 0 .. (window - 1) :
            row # rowIndex'[currentMonth] => CRFs'[row] = CRFs[row]

\* Whenever the update of month m reads the row of a predecessor month p, the
\* row is phase(p), holds the values of month p and is not the row reset for m.
PredecessorRowsHeld ==
    /\ Running =>
          \A p \in Predecessors(currentMonth) :
              /\ rowIndex[p] = phase(p)
              /\ \A r \in Ranks : CRFs[rowIndex[p]][r] = FullTable(p, r)
              /\ IF pc = "heads"
                 THEN rowIndex[p] # windowCounter
                 ELSE rowIndex[p] # rowIndex[currentMonth]
    /\ (pc = "extract" /\ numResultsRequested >= 1) =>
          rowIndex[currentMonth] = phase(currentMonth)

\* C23: the rolling window of L + 1 rows behaves as the full table of M + 1
\* rows: whenever the update of month m reads the row of a predecessor month p
\* (p = m - 1 or p = m - t for a tenor t <= m), the row holds exactly the values
\* computed for month p, no later month has reset or overwritten it, and the
\* row reset for month m is never a row that month m reads.
C23_WindowEquivalentToFullTable ==
    /\ []PredecessorRowsHeld
    /\ [][WritesOwnRowOnly]_vars

C23_Witness ==
    /\ pc = "extract"
    /\ numResults >= 2
    /\ currentMonth >= window
    /\ numTenors >= 2
    /\ rowIndex[currentMonth] = rowIndex[currentMonth - window]
    /\ \E p \in Predecessors(currentMonth) : CRFs[rowIndex[p]][1] # NegInf

\* ------------------------------------------------------------ back-pointers
\* The last month that holds results: the month being extracted, or the month
\* whose update has ended.
LatestMonth ==
    IF pc = "extract" THEN currentMonth ELSE UpdatedMonth

\* The months whose rows the window still holds.
InWindow(p) == p <= LatestMonth /\ p > LatestMonth - window /\ p >= 0

\* The month a back-pointer of month m leads to.
PredecessorMonth(m, d) == m - (IF d.tenor > 0 THEN d.tenor ELSE 1)

\* C24: for every month m >= 1 and every filled rank r with back-pointer
\* (tenor, prev_rank), prev_rank is a filled rank of the predecessor month, and
\* the CRF at (m, r) is the CRF at (m - tenor, prev_rank) times
\* 1 + R(row_of(tenor), m - tenor) when tenor > 0, and the CRF at
\* (m - 1, prev_rank) when tenor = 0.
C24_BackPointerRecurrence ==
    (numResultsRequested >= 1 /\ LatestMonth >= 1 /\ CRFs # << >>) =>
        \A m \in 1 .. LatestMonth : \A r \in Ranks :
            LET d == decisions[m][r]
                pm == PredecessorMonth(m, d)
            IN  d.tenor # -1 =>
                  /\ d.tenor = 0 \/ \E i \in HeadRows(m) : tenorAt(i) = d.tenor
                  /\ d.prevRank \in Ranks
                  /\ decisions[pm][d.prevRank].tenor # -1
                  /\ m = LatestMonth => InWindow(pm)
                  /\ (InWindow(m) /\ InWindow(pm)) =>
                        /\ CRFs[rowIndex[pm]][d.prevRank] # NegInf
                        /\ CRFs[rowIndex[m]][r] =
                             IF d.tenor > 0
                             THEN CRFs[rowIndex[pm]][d.prevRank] *
                                    (1 + tenorData(RowOf(d.tenor), pm))
                             ELSE CRFs[rowIndex[pm]][d.prevRank]

C24_Witness ==
    /\ pc = "reconstruct"
    /\ numMonths >= 3
    /\ \E r \in Ranks :
         /\ decisions[numMonths][r].tenor > 0
         /\ decisions[numMonths][r].prevRank >= 1
         /\ CRFs[rowIndex[numMonths]][r] # 1
    /\ \E m \in 1 .. numMonths : \E r \in Ranks :
         /\ decisions[m][r].tenor = 0
         /\ decisions[m][r].prevRank >= 1

\* ------------------------------------------------------------ backward walk
\* The Decisions entries << month, rank >> the backward walk of reconstructPaths
\* is at, from its start to its end; it is cut at an entry that was not filled.
RECURSIVE WalkVisits(_, _, _)
WalkVisits(dec, month, rank) ==
    IF ~(month > 0) \/ rank \notin Ranks
    THEN << << month, rank >> >>
    ELSE IF dec[month][rank].tenor = -1
    THEN << << month, rank >> >>
    ELSE << << month, rank >> >> \o
         WalkVisits(dec,
                    IF dec[month][rank].tenor = 0
                    THEN month - 1
                    ELSE month - dec[month][rank].tenor,
                    dec[month][rank].prevRank)

RECURSIVE TotalLength(_)
TotalLength(path) ==
    IF path = << >> THEN 0 ELSE Head(path).length + TotalLength(Tail(path))

\* C25: for every rank r < results_at(M) the backward walk only visits filled
\* Decisions entries (tenor # -1, and the prev_rank it follows is a filled rank of
\* the predecessor month), its month strictly decreases at every step and is
\* never negative, and it ends with the month exactly 0; no walk fails.
C25_WalkEndsAtMonthZero ==
    /\ (pc \in { "reconstruct", "done" } /\ numResultsRequested >= 1) =>
          \A r \in 0 .. (numResultsFound - 1) :
              LET v == WalkVisits(decisions, numMonths, r)
              IN  /\ \A i \in 1 .. Len(v) :
                        /\ v[i][1] >= 0
                        /\ v[i][2] \in Ranks
                        /\ decisions[v[i][1]][v[i][2]].tenor # -1
                  /\ \A i \in 1 .. (Len(v) - 1) : v[i + 1][1] < v[i][1]
                  /\ v[Len(v)] = << 0, 0 >>
                  /\ Len(v) = Len(Chain(numMonths, r)) + 1
    /\ Returned =>
          /\ Len(results.decisions) = numResultsFound
          /\ \A r \in 1 .. Len(results.decisions) :
                TotalLength(results.decisions[r]) = numMonths
    /\ (pc = "failed" /\ numResultsRequested >= 1) => results.kind = "overflow"

C25_Witness ==
    /\ Returned
    /\ numMonths = 3
    /\ numResultsFound = 3
    /\ numResultsFound < numResultsRequested + 1
    /\ \E r \in 0 .. 2 :
         LET v == WalkVisits(decisions, numMonths, r)
         IN  /\ Len(v) = 3
             /\ v[2][2] >= 1
             /\ decisions[3][r].tenor # decisions[v[2][1]][v[2][2]].tenor

\* --------------------------------------------------------- results per month
\* The count of the Path Counter's DP for month m: 1 for month 0, then the sum
\* over the unit wait and every tenor t <= m of the count of month m - t.
RECURSIVE StepCounts(_, _, _)
RECURSIVE PathCountTo(_)
StepCounts(steps, n, m) ==
    IF n = 0 THEN 0
    ELSE StepCounts(steps, n - 1, m) +
         (IF steps[n] <= m THEN PathCountTo(m - steps[n]) ELSE 0)
PathCountTo(m) ==
    IF m = 0 THEN 1
    ELSE StepCounts(WithWaitStep(tenorList), Len(WithWaitStep(tenorList)), m)

\* The ranks filled at month m.
FilledAt(m) == { r \in Ranks : decisions[m][r].tenor # -1 }

\* C26: with k >= 1 and no overflow the number of results found at every month
\* m is min(k, C(m)), C(m) being the Path Counter's count for month m (one unit
\* wait step plus one step per tenor); a call with k >= C(M) returns exactly
\* C(M) results, one per feasible sequence.
C26_ResultsAtEveryMonth ==
    /\ (numResultsRequested >= 1 /\ UpdatedMonth >= 1) =>
          /\ numResultsFound = Min(numResultsRequested, PathCountTo(UpdatedMonth))
          /\ \A m \in 0 .. UpdatedMonth :
                /\ FilledAt(m) = 0 .. (Min(numResultsRequested, PathCountTo(m)) - 1)
                /\ PathCountTo(m) = Cardinality(SequencesTo(m))
    /\ (Returned /\ numResultsRequested >= PathCountTo(numMonths)) =>
          /\ Len(results.CRFs) = PathCountTo(numMonths)
          /\ Len(results.decisions) = PathCountTo(numMonths)
          /\ { Chain(numMonths, r) : r \in 0 .. (numResultsFound - 1) }
                = SequencesTo(numMonths)
    /\ Returned => Len(results.CRFs) = Min(numResultsRequested, PathCountTo(numMonths))

C26_Witness ==
    /\ Returned
    /\ numResultsRequested = 3
    /\ numMonths = 3
    /\ PathCountTo(2) = 2
    /\ PathCountTo(3) = 3
    /\ Len(results.decisions) = 3

\* -------------------------------------------------------------- promotion
\* The mathematically correct counts of the months 0 .. M for a list of steps,
\* as unbounded naturals: a table built month by month (every month has a path,
\* the wait being a step of every list).
RECURSIVE MonthsUpTo(_, _, _, _)
MonthsUpTo(steps, P, m, last) ==
    IF m > last THEN P
    ELSE LET next == P @@ (m :> SumOfSteps(steps, Len(steps), P, m))
         IN  IF next[m] = Zero THEN P ELSE MonthsUpTo(steps, next, m + 1, last)
\* The table is built ten months at a time.
RECURSIVE CountsUpTo(_, _, _, _)
CountsUpTo(steps, P, m, M) ==
    IF m > M THEN P
    ELSE LET last == Min(m + 9, M)
             next == MonthsUpTo(steps, P, m, last)
         IN  IF next[last] = Zero THEN P ELSE CountsUpTo(steps, next, last + 1, M)
TrueCounts(tl, M) == CountsUpTo(WaitAndTenors(tl), (0 :> One), 1, M)

\* | a - b |, and a * 2^(2 * LimbWidth).
Distance(a, b) == IF BigLess(a, b) THEN BigSub(b, a) ELSE BigSub(a, b)
ShiftedUp(a) == IF a = Zero THEN Zero ELSE << 0, 0 >> \o a

\* An approximate count is the true count up to the rounding of the double
\* additions made for it: a relative error of at most 2^-30, far below the
\* share of any single addend.
WithinRounding(approx, true) == ~BigLess(true, ShiftedUp(Distance(approx, true)))

\* The months whose sums are complete.
CompleteMonths ==
    IF counter.pc = "returned" THEN 0 .. counter.numMonths ELSE 0 .. (counter.i - 1)

\* C27: at the promotion no addend is lost or counted twice.  The months before
\* the promotion keep their integer values, which are the true counts; the
\* approximate table holds their conversions; the promoted month and every
\* later month hold the true count up to the rounding of doubles, and so does
\* the Approx result.
C27_PromotionLosesNoAddend ==
    (counter # None /\ counter.overflowed /\ (counter.pc = "returned" \/ counter.t = 1)) =>
        LET T == TrueCounts(counter.tenors, counter.numMonths)
        IN  /\ \A m \in CompleteMonths :
                  /\ FitsLongLong(T[m]) =>
                        /\ counter.numPaths[m] = T[m]
                        /\ counter.numPathsApprox[m] = ToDouble(T[m])
                  /\ WithinRounding(counter.numPathsApprox[m], T[m])
                  /\ counter.numPathsApprox[m] # Zero
            /\ \E m \in CompleteMonths : ~FitsLongLong(T[m])
            /\ \A m \in 1 .. counter.numMonths :
                  (~FitsLongLong(T[m]) /\ FitsLongLong(T[m - 1])) =>
                      /\ FitsLongLong(counter.numPaths[m])
                      /\ BigLess(counter.numPaths[m], T[m])
            /\ counter.pc = "returned" =>
                  /\ counter.result.kind = "Approx"
                  /\ WithinRounding(counter.result.value, T[counter.numMonths])

C27_Witness ==
    /\ CountReturned
    /\ counter.overflowed
    /\ counter.tenors = <<1, 2>>
    /\ counter.numMonths = 100
    /\ counter.numPaths[49] # Zero
    /\ counter.numPaths[51] = Zero
    /\ counter.result.value # TrueCounts(counter.tenors, counter.numMonths)[100]

\* ------------------------------------------------- the path of optimiseCRF
\* C28: optimiseCRF returns a path that tiles [0, numMonths] in chronological
\* order: every Wait starts at the month the wait begins (the end of the
\* preceding action), every Buy at maturity - tenor, and no Action with a
\* negative start month is ever constructed.
C28_ScalarPathTiles ==
    scalar # None =>
        /\ scalar.kind = "ok"
        /\ Tiles(scalar.choices)
        /\ \A i \in 1 .. Len(scalar.choices) : scalar.choices[i].startMonth >= 0

\* ------------------------------------------------------------ cells of a row
\* The last line read is a data row whose tenor passed the checks, so that its
\* return cells were parsed and stored.
CellsOfLastRowStored ==
    /\ loader # None
    /\ loader.currentRowNum >= 1
    /\ loader.csv.rows[loader.currentRowNum] # Blank
    /\ loader.csv.rows[loader.currentRowNum].tenor > 0
    /\ \A j \in 1 .. (loader.currentRowNum - 1) :
          loader.csv.rows[j] = Blank
             \/ loader.csv.rows[j].tenor # loader.csv.rows[loader.currentRowNum].tenor

\* The size of gridUnsorted when the last line read was reached: every data row
\* before it was accepted with numMonths cells.
BaseOfLastRow ==
    loader.numMonths
       * Cardinality({ j \in 1 .. (loader.currentRowNum - 1) : loader.csv.rows[j] # Blank })

RaisedCSVError ==
    dataPrompt # None /\ dataPrompt.pc = "loadBondReturnCSV"
                      /\ loader # None /\ loader.pc = "csv_error"

\* The failure has been shown and the loop is at the prompt again.
AskedAgain ==
    dataPrompt # None /\ dataPrompt.pc = "prompt"
                      /\ dataPrompt.retryMessage = "Failed to load data"
                      /\ dataPrompt.result = "none"

\* The line entered at the prompt was a path.
EnteredPath ==
    /\ Len(dataPrompt.input) = 1
    /\ dataPrompt.input[1] # << >>
    /\ ~svCaseInsensitiveCompare(dataPrompt.input[1], << "h" >>)

\* The user entered nothing at the prompt and nothing again to confirm, or the
\* input ended at one of the two.
ConfirmedOrEndOfInput ==
    \/ dataPrompt.eof /\ dataPrompt.input \in { << >>, << << >> >> }
    \/ ~dataPrompt.eof /\ dataPrompt.input = << << >>, << >> >>

\* The prompt returns a matrix only from a successful load and an escape only
\* after the confirmation or at the end of input, and no exception of the
\* loader other than CSVError reaches it.
DataPromptResults ==
    dataPrompt # None =>
        /\ dataPrompt.result = "value" => Loaded /\ EnteredPath
        /\ dataPrompt.result = "escape" => ConfirmedOrEndOfInput
        /\ dataPrompt.result # "invalid_argument"

RecoversCSVError ==
    RaisedCSVError /\ dataPrompt' # dataPrompt => AskedAgain'

\* C21: every CSVError raised by the loader (for the path, the file or its
\* contents) is caught by the data prompt, shown, and the prompt asked again:
\* it never ends the prompt; the prompt returns a matrix only from a successful
\* load and an escape only after the user confirmed quitting or the input
\* ended.
C21_LoaderErrorsRecoveredAtPrompt ==
    /\ []DataPromptResults
    /\ [][RecoversCSVError]_vars
    /\ (RaisedCSVError ~> AskedAgain)

\* A failed load was shown and the next path entered was loaded.
C21_Witness ==
    /\ dataPrompt # None
    /\ dataPrompt.retryMessage = "Failed to load data"
    /\ dataPrompt.result = "value"
    /\ Loaded

\* ------------------------------------------------------ short form read back
\* The kinds and lengths as the actions of a path from the month given: each
\* action starts where the one before it ends.
RECURSIVE AsPathFrom(_, _)
AsPathFrom(kindsAndLengths, month) ==
    IF kindsAndLengths = << >> THEN << >>
    ELSE << InvestmentAction(Head(kindsAndLengths).action, month,
                             Head(kindsAndLengths).length) >>
            \o AsPathFrom(Tail(kindsAndLengths), month + Head(kindsAndLengths).length)

\* The paths a text can be read back as, each with its short form.
PathsToRead == { AsPathFrom(KindAndLength(path), 0) : path \in ResultPaths }
ShortForm == [path \in PathsToRead |-> joinFormatted(path, << "," >>)]

\* What the text written reads back as.
ReadBack == { path \in PathsToRead : ShortForm[path] = rendering.text }

Formatted == rendering # None /\ rendering.pc = "formatted"

\* What the short form does keep: the text is that of one path only, which has
\* the kind and the length of every action written.
ReadsBackKindsAndLengths ==
    Formatted =>
        /\ Cardinality(ReadBack) = 1
        /\ \A path \in ReadBack : KindAndLength(path) = KindAndLength(rendering.decisions)

\* C22: the short form written for a sequence of actions, read back as a path
\* (every action starting where the one before it ends, the first at month 0),
\* is the sequence written, with the kind, the length and the start month of
\* every action.
C22_ShortFormReadsBackAsWritten ==
    Formatted => ReadBack = { rendering.decisions }

\* ------------------------------------------------- sequences without waits
TenorSet == { tenorList[j] : j \in 1 .. Len(tenorList) }

RECURSIVE SumOf(_)
SumOf(path) == IF path = << >> THEN 0 ELSE Head(path) + SumOf(Tail(path))

\* The sequences of purchases from month 0 that end within numMonths and that
\* the shortest tenor cannot extend.
MaximalSequences ==
    { path \in SeqsUpTo(TenorSet, numMonths) :
        /\ path # << >>
        /\ SumOf(path) <= numMonths
        /\ SumOf(path) + tenorList[1] > numMonths }

\* The CRF of a sequence of purchases, multiplied up from month 0.
RECURSIVE CRFFrom(_, _, _)
CRFFrom(path, month, crf) ==
    IF path = << >> THEN crf
    ELSE CRFFrom(Tail(path), month + Head(path),
                 Mul(crf, 1 + tenorData(RowOf(Head(path)), month)))
CRFOf(path) == CRFFrom(path, 0, 1)

SearchDone == recursive # None /\ recursive.pc = "done"
Searching == recursive # None /\ recursive.pc \in { "recurseCRFs", "done" }

\* The first n elements of a list are n of the extreme CRFs of the maximal
\* sequences, best first, each with a sequence that produces it.
HoldsExtremes(elemList, kind, n) ==
    \A j \in 1 .. n :
        /\ elemList[j].tenorChoices \in MaximalSequences
        /\ CRFOf(elemList[j].tenorChoices) = elemList[j].CRF
        /\ \A other \in 1 .. n :
              other # j => elemList[other].tenorChoices # elemList[j].tenorChoices
        /\ \A path \in MaximalSequences :
              (IF kind = "Top" THEN CRFOf(path) > elemList[j].CRF
                               ELSE CRFOf(path) < elemList[j].CRF)
                 => \E better \in 1 .. (j - 1) : elemList[better].tenorChoices = path

SortedBestFirst(elemList, kind) ==
    \A j \in 1 .. (Len(elemList) - 1) :
        IF kind = "Top" THEN elemList[j].CRF >= elemList[j + 1].CRF
                        ELSE elemList[j].CRF <= elemList[j + 1].CRF

\* C30: numSolutions is the number of maximal sequences of purchases from
\* month 0; after the search the Top list holds the min(numTop, numSolutions)
\* largest of their CRFs in descending order and the Bottom list the smallest
\* in ascending order, each with a sequence that produces it; and whatever
\* compareAndInsert has been called with, each list keeps its length and stays
\* sorted.
C30_TopAndBottomOfMaximalSequences ==
    /\ SearchDone =>
          /\ recursive.numSolutions = Cardinality(MaximalSequences)
          /\ HoldsExtremes(recursive.topChoices, "Top",
                           Min(recursive.numTopChoices, recursive.numSolutions))
          /\ HoldsExtremes(recursive.botChoices, "Bottom",
                           Min(recursive.numBotChoices, recursive.numSolutions))
    /\ Searching =>
          /\ Len(recursive.topChoices) = recursive.numTopChoices
          /\ Len(recursive.botChoices) = recursive.numBotChoices
          /\ SortedBestFirst(recursive.topChoices, "Top")
          /\ SortedBestFirst(recursive.botChoices, "Bottom")

====
